---- MODULE Spec2Model ----
(***************************************************************************)
(* Verification model of the research-master MCP server:                   *)
(*   - OllamaService (mcp-server/src/services/ollama.ts): the generation   *)
(*     broker with cache lookup, in-flight deduplication and retries;      *)
(*   - MCPHandler (mcp-server/src/index.ts) and MCPProtocol                *)
(*     (mcp-server/src/protocols/mcp.ts): request dispatch and replies;    *)
(*   - WorkflowManager (mcp-server/src/managers/workflow.ts): per-session  *)
(*     workflow state, stage progress and error records.                   *)
(* Node's event loop is modelled as one atomic action per run-to-          *)
(* completion segment of code between two suspension points (await).       *)
(***************************************************************************)
EXTENDS Integers, Sequences, FiniteSets, TLC

----------------------------------------------------------------------------
(* Bounds of the model *)

MaxCalls == 3          \* generate calls issued on the broker
NumFps == 2            \* distinct request fingerprints (cache keys)
MaxCfgRetries == 1     \* largest explicitly configured maxRetries
MaxClears == 1         \* clearCache invocations
MaxExpiries == 1       \* cache entries that reach their TTL
MaxMade == 3           \* envelopes the factories of MCPProtocol return
MaxBatch == 5          \* requests given to one batchGenerate call
MaxChunks == 2         \* data events of the stream of one streamGenerate call
MaxEntries == 3        \* keys session:<id> of the durable store

CallIds == 1..MaxCalls
BatchCallIds == 1..MaxBatch   \* the generate calls of batchGenerate, by request index
Fps == 1..NumFps

MaxTasks == 4          \* WorkflowManager operations invoked
MaxConcurrent == 2     \* WorkflowManager operations in progress at one time
MaxClock == 2          \* distinct values Date.now() returns (milliseconds)
MaxFailures == 1       \* failures of collaborators (backend, redis, services)
MaxRequests == 2       \* mcp:request messages received
MaxSessions == 1       \* session:create messages received

TaskIds == 1..MaxConcurrent   \* a slot is used again once its operation settled
ObjIds == 1..MaxTasks         \* WorkflowState objects, named by the creating operation
WfKeys == 1..MaxClock  \* the session ids `session_${Date.now()}`
ReqIds == 1..MaxRequests
SessionSlots == 1..MaxSessions

NoFp == 0
NoOp == 0
NoVal == 0

----------------------------------------------------------------------------
(* OllamaService state *)

VARIABLES
    cfgCacheEnabled,   \* config.cacheEnabled
    cfgMaxRetries,     \* config.maxRetries, 0 when not configured (falsy)
    calls,             \* one record per generate() invocation
    ops,               \* one record per performGeneration() invocation
    activeRequests,    \* Map<fingerprint, Promise>: fp -> op id or NoOp
    redisQueue,        \* commands sent on the ioredis connection, FIFO
    redisStore,        \* ollama:cache:<fp> -> stored payload or NoVal
    cachedSince,       \* history: a useCache call succeeded, no expiry/clear since
    clearPc,           \* position of the clearCache() invocation
    clears,            \* clearCache invocations so far
    expiries           \* TTL expiries so far

(* OllamaService: start-up and the methods built on generate *)
VARIABLES
    modelLoaded,       \* this.modelLoaded
    initPc,            \* position of initializeModel()
    jsonCalls,         \* one record per generateJSON() invocation
    batch,             \* the batchGenerate() invocation
    stream,            \* the streamGenerate() invocation
    atClear            \* history: the cache as it was when clearCache() was called

(* REST endpoint GET /sessions (mcp-server/src/index.ts) *)
VARIABLES
    sessionStore,      \* redis session:<id>: what is stored under each key
    listing            \* the GET /sessions request being served

restVars == <<sessionStore, listing>>

\* what start-up, generateJSON and batchGenerate leave alone
auxVars == <<stream, atClear, restVars>>
svcVars == <<modelLoaded, initPc, jsonCalls, batch, auxVars>>

(* MCPProtocol: the envelopes its factories returned and the last validate call *)
VARIABLES
    made,              \* envelopes returned by the create* functions, in order
    checked            \* the argument and the return value of the last validate()

protoVars == <<made, checked>>

\* what generate() and clearCache() work on
ollamaVars == <<cfgCacheEnabled, cfgMaxRetries, calls, ops, activeRequests,
                redisQueue, redisStore, cachedSince, clearPc, clears, expiries>>

\* everything WorkflowManager and MCPHandler leave alone
brokerVars == <<ollamaVars, svcVars, protoVars>>

(* WorkflowManager state *)
VARIABLES
    now,             \* the value Date.now() returned last, 0 before the first call
    objs,            \* heap of WorkflowState objects, one per creating operation
    workflows,       \* WorkflowManager.workflows: session id -> object
    savedWf,         \* redis workflow:<sessionId>: the snapshot last written
    listeners,       \* crawl:progress listeners on the orchestrator, per session id
    researchResults, \* redis research:results:<sessionId> present
    tasks,           \* the WorkflowManager operations in progress or last settled
    failures,        \* collaborator failures so far
    invoked          \* WorkflowManager operations invoked so far

wfVars == <<now, objs, workflows, savedWf, listeners, researchResults, tasks, failures,
           invoked>>

(* MCPHandler state *)
VARIABLES
    sessions,        \* MCPHandler.sessions
    requests,        \* one record per mcp:request message received
    replies,         \* what the socket handler emitted for each request
    uuidCount,       \* uuidv4() calls made for responses so far
    pushes           \* what io.to(room).emit sent: records of room, event, payload

mcpVars == <<sessions, requests, replies, uuidCount, pushes>>

\* everything generate() and clearCache() leave alone
serverVars == <<wfVars, mcpVars, svcVars, protoVars>>
vars == <<brokerVars, wfVars, mcpVars>>

DefaultMaxRetries == 3

\* this.config.maxRetries || 3
MaxRetriesOf(configured) ==
    IF configured = 0 THEN DefaultMaxRetries ELSE configured

\* the for-loop condition of performGeneration: attempt < maxRetries
RetryAllowed_OffByOne(attempt, maxRetries) == attempt <= maxRetries
RetryAllowed(attempt, maxRetries) == attempt < maxRetries

\* generate, lines 132 and 157: this.config.cacheEnabled && useCache
CacheUsed_IgnoresUseCache(enabled, useCache) == enabled
CacheUsed(enabled, useCache) == enabled /\ useCache

\* this.activeRequests.delete(requestKey) in the finally block of generate
FinallyDelete_Skipped(ar, requestKey) == ar
FinallyDelete(ar, requestKey) == [ar EXCEPT ![requestKey] = NoOp]

\* the message of the error the k-th attempt failed with
ErrorOfAttempt(k) == k
NoError == 0

OkResult(p) == [kind |-> "ok", payload |-> p, attempts |-> 0, msg |-> NoError]
\* new Error(`Generation failed after ${maxRetries} attempts: ${lastError.message}`)
GenerationFailed(n, m) ==
    [kind |-> "generation", payload |-> NoVal, attempts |-> n, msg |-> m]
RedisFailed ==
    [kind |-> "redis", payload |-> NoVal, attempts |-> 0, msg |-> NoError]
NoResult == [kind |-> "none", payload |-> NoVal, attempts |-> 0, msg |-> NoError]

IdleCall ==
    [pc |-> "idle", fp |-> NoFp, useCache |-> FALSE, op |-> NoOp,
     registered |-> FALSE, result |-> NoResult,
     sawInflight |-> FALSE, afterSuccess |-> FALSE]

NoOperation ==
    [state |-> "none", fp |-> NoFp, posts |-> 0, fails |-> 0,
     lastError |-> NoError, result |-> NoResult]

RedisCmd(c, k, v, ks, w) == [cmd |-> c, key |-> k, val |-> v, keys |-> ks, who |-> w]

Pending(c) == calls[c].pc \notin {"idle", "done"}

BrokerInit ==
    /\ cfgCacheEnabled \in BOOLEAN
    /\ cfgMaxRetries \in 0..MaxCfgRetries
    /\ calls = [c \in CallIds |-> IdleCall]
    /\ ops = [c \in CallIds |-> NoOperation]
    /\ activeRequests = [f \in Fps |-> NoOp]
    /\ redisQueue = <<>>
    /\ redisStore = [f \in Fps |-> NoVal]
    /\ cachedSince = [f \in Fps |-> FALSE]
    /\ clearPc = "idle"
    /\ clears = 0
    /\ expiries = 0

\* A call finished: it returns or throws `res`.
Finish(cs, c, res) == [cs EXCEPT ![c].pc = "done", ![c].result = res]

\* History only: a useCache=true call returned successfully.
NoteSuccess(since, cs, c, res) ==
    IF res.kind = "ok" /\ cs[c].useCache
    THEN [since EXCEPT ![cs[c].fp] = TRUE]
    ELSE since

\* generate(), lines 142-151: deduplicate against the in-flight map or
\* register a new performGeneration (which issues its first POST at once).
\* `cs` is the calls map as the running segment has left it so far.
DedupOrRegister(cs, c) ==
    LET f == cs[c].fp
        o == activeRequests[f]
    IN  IF o # NoOp
        THEN \* return existingRequest
             /\ IF ops[o].state = "resolved"
                THEN /\ calls' = Finish([cs EXCEPT ![c].op = o], c, ops[o].result)
                     /\ cachedSince' = NoteSuccess(cachedSince, cs, c, ops[o].result)
                ELSE /\ calls' = [cs EXCEPT ![c].op = o, ![c].pc = "awaitShared"]
                     /\ UNCHANGED cachedSince
             /\ UNCHANGED <<ops, activeRequests>>
        ELSE /\ ops' = [ops EXCEPT ![c] =
                            [state |-> "running", fp |-> f, posts |-> 1, fails |-> 0,
                             lastError |-> NoError, result |-> NoResult]]
             /\ activeRequests' = [activeRequests EXCEPT ![f] = c]
             /\ calls' = [cs EXCEPT ![c].op = c, ![c].registered = TRUE,
                                    ![c].pc = "awaitBackend"]
             /\ UNCHANGED cachedSince

\* generate(), lines 124-140: entry of a call, up to its first suspension.
GenerateCall(c, f, uc) ==
    /\ calls[c].pc = "idle"
    /\ IF c = 1 THEN TRUE ELSE calls[c - 1].pc # "idle"
    /\ LET started == [calls EXCEPT ![c].fp = f, ![c].useCache = uc,
                                    ![c].sawInflight = (activeRequests[f] # NoOp),
                                    ![c].afterSuccess = (uc /\ cachedSince[f])]
       IN  IF CacheUsed(cfgCacheEnabled, uc)
           THEN /\ calls' = [started EXCEPT ![c].pc = "awaitGet"]
                /\ redisQueue' = Append(redisQueue, RedisCmd("GET", f, NoVal, {}, c))
                /\ UNCHANGED <<ops, activeRequests, cachedSince>>
           ELSE /\ DedupOrRegister(started, c)
                /\ UNCHANGED redisQueue
    /\ UNCHANGED <<cfgCacheEnabled, cfgMaxRetries, redisStore, clearPc, clears, expiries>>

\* generate() called from outside the service.  Fingerprints are
\* interchangeable: the callers use them in increasing order.
Generate(c, f, uc) ==
    /\ \A g \in Fps : g < f => \E d \in CallIds : calls[d].fp = g
    /\ GenerateCall(c, f, uc)
    /\ UNCHANGED serverVars

\* await this.config.redis.get(cacheKey) settles with the stored value.
RedisGetReply ==
    /\ redisQueue # <<>>
    /\ Head(redisQueue).cmd = "GET"
    /\ LET c == Head(redisQueue).who
           cached == redisStore[Head(redisQueue).key]
       IN  IF cached # NoVal
           THEN \* cache hit: return JSON.parse(cached)
                /\ calls' = Finish(calls, c, OkResult(cached))
                /\ cachedSince' = NoteSuccess(cachedSince, calls, c, OkResult(cached))
                /\ UNCHANGED <<ops, activeRequests>>
           ELSE DedupOrRegister(calls, c)
    /\ redisQueue' = Tail(redisQueue)
    /\ UNCHANGED serverVars
    /\ UNCHANGED <<cfgCacheEnabled, cfgMaxRetries, redisStore, clearPc, clears, expiries>>

\* The settling of a performGeneration promise runs the continuations of the
\* calls awaiting it in the same turn: the registrant (line 154 onwards, then
\* the finally block) and every call that returned the shared promise.
SettleCalls(o, res) ==
    LET joined == [c \in DOMAIN calls |->
                      IF calls[c].pc = "awaitShared" /\ calls[c].op = o
                      THEN [calls[c] EXCEPT !.pc = "done", !.result = res]
                      ELSE calls[c]]
        since1 == [f \in Fps |->
                      \/ cachedSince[f]
                      \/ \E c \in DOMAIN calls :
                            /\ calls[c].pc = "awaitShared" /\ calls[c].op = o
                            /\ calls[c].useCache /\ calls[c].fp = f
                            /\ res.kind = "ok"]
    IN  IF res.kind = "ok" /\ CacheUsed(cfgCacheEnabled, calls[o].useCache)
        THEN \* await this.config.redis.set(cacheKey, ..., "EX", 3600)
             /\ calls' = [joined EXCEPT ![o].pc = "awaitSet"]
             /\ redisQueue' = Append(redisQueue,
                                  RedisCmd("SET", calls[o].fp, res.payload, {}, o))
             /\ cachedSince' = since1
             /\ UNCHANGED activeRequests
        ELSE /\ calls' = Finish(joined, o, res)
             /\ cachedSince' = NoteSuccess(since1, calls, o, res)
             /\ activeRequests' = FinallyDelete(activeRequests, calls[o].fp)
             /\ UNCHANGED redisQueue

\* performGeneration, lines 183-205: the POST /api/chat of the current
\* attempt answers 2xx; the operation returns response.data.  Every backend
\* response is a value of its own, named after the operation that got it.
BackendSuccess(o) ==
    /\ ops[o].state = "running"
    /\ ops' = [ops EXCEPT ![o].state = "resolved", ![o].result = OkResult(o)]
    /\ SettleCalls(o, OkResult(o))
    /\ UNCHANGED serverVars
    /\ UNCHANGED <<cfgCacheEnabled, cfgMaxRetries, redisStore, clearPc, clears, expiries>>

\* performGeneration, lines 206-222: the current attempt fails (network
\* error, non-2xx, timeout); back off, or give up after the last attempt.
\* Every failed attempt has an error message of its own, named after the
\* attempt (1 for the first).
BackendFailure(o) ==
    /\ ops[o].state = "running"
    /\ LET n == MaxRetriesOf(cfgMaxRetries)
           attempt == ops[o].fails          \* value of the loop variable
           e == ErrorOfAttempt(attempt + 1)
       IN  IF RetryAllowed(attempt + 1, n)
           THEN /\ ops' = [ops EXCEPT ![o].state = "backoff", ![o].fails = @ + 1,
                                      ![o].lastError = e]
                /\ UNCHANGED <<calls, activeRequests, redisQueue, cachedSince>>
           ELSE /\ ops' = [ops EXCEPT ![o].state = "rejected", ![o].fails = @ + 1,
                                      ![o].lastError = e,
                                      ![o].result = GenerationFailed(n, e)]
                /\ SettleCalls(o, GenerationFailed(n, e))
    /\ UNCHANGED serverVars
    /\ UNCHANGED <<cfgCacheEnabled, cfgMaxRetries, redisStore, clearPc, clears, expiries>>

\* performGeneration, line 214 then 183: the backoff delay elapses and the
\* next iteration issues its POST.
RetryAfterBackoff(o) ==
    /\ ops[o].state = "backoff"
    /\ ops' = [ops EXCEPT ![o].state = "running", ![o].posts = @ + 1]
    /\ UNCHANGED serverVars
    /\ UNCHANGED <<cfgCacheEnabled, cfgMaxRetries, calls, activeRequests, redisQueue,
                   redisStore, cachedSince, clearPc, clears, expiries>>

\* generate(), lines 159-171: the cache write succeeded.
RedisSetReply ==
    /\ redisQueue # <<>>
    /\ Head(redisQueue).cmd = "SET"
    /\ LET c == Head(redisQueue).who
           f == Head(redisQueue).key
           res == OkResult(Head(redisQueue).val)
       IN  /\ redisStore' = [redisStore EXCEPT ![f] = Head(redisQueue).val]
           /\ calls' = Finish(calls, c, res)
           /\ cachedSince' = NoteSuccess(cachedSince, calls, c, res)
           /\ activeRequests' = FinallyDelete(activeRequests, f)
    /\ redisQueue' = Tail(redisQueue)
    /\ UNCHANGED serverVars
    /\ UNCHANGED <<cfgCacheEnabled, cfgMaxRetries, ops, clearPc, clears, expiries>>

\* A redis command of generate() rejects (connection lost, retries per
\* request exhausted): the awaiting call throws; a registrant runs finally.
RedisError ==
    /\ redisQueue # <<>>
    /\ Head(redisQueue).cmd \in {"GET", "SET"}
    /\ LET c == Head(redisQueue).who
       IN  /\ calls' = Finish(calls, c, RedisFailed)
           /\ activeRequests' =
                  IF Head(redisQueue).cmd = "SET"
                  THEN FinallyDelete(activeRequests, Head(redisQueue).key)
                  ELSE activeRequests
    /\ redisQueue' = Tail(redisQueue)
    /\ UNCHANGED serverVars
    /\ UNCHANGED <<cfgCacheEnabled, cfgMaxRetries, ops, redisStore, cachedSince,
                   clearPc, clears, expiries>>

\* History only: the cache entries of `fs` are gone (or about to be), so a
\* later miss on them is no longer a miss after a cached success.
Forget(cs, fs) ==
    [c \in CallIds |->
        IF cs[c].fp \in fs /\ cs[c].pc # "done"
        THEN [cs[c] EXCEPT !.afterSuccess = FALSE]
        ELSE cs[c]]

\* The 3600 s expiry of a cache entry elapses (redis EX).
CacheExpire(f) ==
    /\ expiries < MaxExpiries
    /\ redisStore[f] # NoVal
    /\ redisStore' = [redisStore EXCEPT ![f] = NoVal]
    /\ cachedSince' = [cachedSince EXCEPT ![f] = FALSE]
    /\ calls' = Forget(calls, {f})
    /\ expiries' = expiries + 1
    /\ UNCHANGED serverVars
    /\ UNCHANGED <<cfgCacheEnabled, cfgMaxRetries, ops, activeRequests, redisQueue,
                   clearPc, clears>>

\* clearCache(), line 356: redis.keys("ollama:cache:*") is sent.
ClearCache ==
    /\ clearPc = "idle"
    /\ clears < MaxClears
    /\ clearPc' = "awaitKeys"
    /\ clears' = clears + 1
    /\ redisQueue' = Append(redisQueue, RedisCmd("KEYS", NoFp, NoVal, {}, NoOp))
    /\ cachedSince' = [f \in Fps |-> FALSE]
    /\ calls' = Forget(calls, Fps)
    /\ atClear' = redisStore
    /\ UNCHANGED <<wfVars, mcpVars, protoVars>>
    /\ UNCHANGED <<modelLoaded, initPc, jsonCalls, batch, stream, restVars>>
    /\ UNCHANGED <<cfgCacheEnabled, cfgMaxRetries, ops, activeRequests, redisStore,
                   expiries>>

\* redis.keys("ollama:cache:*"): the keys of all cache entries
CacheKeys_OneOnly(store) ==
    LET all == {f \in Fps : store[f] # NoVal}
    IN  IF all = {} THEN {} ELSE {CHOOSE f \in all : \A g \in all : f <= g}
CacheKeys(store) == {f \in Fps : store[f] # NoVal}

\* clearCache(), lines 357-359: the key list arrives; delete what it names.
RedisKeysReply ==
    /\ redisQueue # <<>>
    /\ Head(redisQueue).cmd = "KEYS"
    /\ LET keys == CacheKeys(redisStore)
       IN  IF keys # {}
           THEN /\ redisQueue' = Append(Tail(redisQueue),
                                        RedisCmd("DEL", NoFp, NoVal, keys, NoOp))
                /\ clearPc' = "awaitDel"
           ELSE /\ redisQueue' = Tail(redisQueue)
                /\ clearPc' = "idle"
    /\ cachedSince' = [f \in Fps |-> FALSE]
    /\ calls' = Forget(calls, Fps)
    /\ UNCHANGED serverVars
    /\ UNCHANGED <<cfgCacheEnabled, cfgMaxRetries, ops, activeRequests, redisStore,
                   clears, expiries>>

\* clearCache(), lines 358-360: redis.del(...keys) is applied.
RedisDelReply ==
    /\ redisQueue # <<>>
    /\ Head(redisQueue).cmd = "DEL"
    /\ redisStore' = [f \in Fps |->
                         IF f \in Head(redisQueue).keys THEN NoVal ELSE redisStore[f]]
    /\ redisQueue' = Tail(redisQueue)
    /\ clearPc' = "idle"
    /\ cachedSince' = [f \in Fps |-> FALSE]
    /\ calls' = Forget(calls, Fps)
    /\ UNCHANGED serverVars
    /\ UNCHANGED <<cfgCacheEnabled, cfgMaxRetries, ops, activeRequests, clears, expiries>>

BrokerNext ==
    \/ \E c \in CallIds, f \in Fps, uc \in BOOLEAN : Generate(c, f, uc)
    \/ RedisGetReply
    \/ \E o \in CallIds : BackendSuccess(o)
    \/ \E o \in CallIds : BackendFailure(o)
    \/ \E o \in CallIds : RetryAfterBackoff(o)
    \/ RedisSetReply
    \/ RedisError
    \/ \E f \in Fps : CacheExpire(f)
    \/ ClearCache
    \/ RedisKeysReply
    \/ RedisDelReply

----------------------------------------------------------------------------
(* OllamaService: what the backend answers, start-up, generateJSON *)

\* The body of a 2xx answer of POST /api/chat is returned as it is (line
\* 205).  The answer to operation o is named o when it has a message whose
\* content is JSON text, ShapeBase + o when the content is other text and
\* 2 * ShapeBase + o when the body has no message at all.
ShapeBase == 10
ResponseJson(o) == o
ResponseText(o) == ShapeBase + o
ResponseNoMessage(o) == 2 * ShapeBase + o
HasMessage(p) == p < 2 * ShapeBase
IsJson(p) == p < ShapeBase
OpOf(p) == p % ShapeBase

\* an entry a process that ran before left in redis
EarlierOp == ShapeBase - 1

\* the fingerprint of the warm-up request of loadModel, lines 107-110
WarmUpFp == 1

\* performGeneration, lines 183-205: the POST answers 2xx with a body that
\* is not the chat response expected; nothing looks at it before line 205.
BackendOddResponse(o, p) ==
    /\ ops[o].state = "running"
    /\ p \in {ResponseText(o), ResponseNoMessage(o)}
    /\ ops' = [ops EXCEPT ![o].state = "resolved", ![o].result = OkResult(p)]
    /\ SettleCalls(o, OkResult(p))
    /\ UNCHANGED serverVars
    /\ UNCHANGED <<cfgCacheEnabled, cfgMaxRetries, redisStore, clearPc, clears, expiries>>

\* initializeModel, lines 70-82: GET /api/tags answered.  A failure ends the
\* start-up; a list without the model leads to the pull; with the model in
\* the list loadModel calls generate for the warm-up request.
InitializeModelTags(c, ok, present) ==
    /\ initPc.at = "tags"
    /\ IF ~ok
       THEN initPc' = [initPc EXCEPT !.at = "failed"] /\ UNCHANGED ollamaVars
       ELSE IF present
       THEN initPc' = [initPc EXCEPT !.at = "load", !.call = c] /\ GenerateCall(c, WarmUpFp, TRUE)
       ELSE initPc' = [initPc EXCEPT !.at = "pull", !.pulled = TRUE] /\ UNCHANGED ollamaVars
    /\ UNCHANGED <<modelLoaded, jsonCalls, batch, auxVars>>
    /\ UNCHANGED <<wfVars, mcpVars, protoVars>>

\* pullModel, lines 91-103, then line 82: POST /api/pull answered
InitializeModelPulled(c, ok) ==
    /\ initPc.at = "pull"
    /\ IF ok
       THEN initPc' = [initPc EXCEPT !.at = "load", !.call = c] /\ GenerateCall(c, WarmUpFp, TRUE)
       ELSE initPc' = [initPc EXCEPT !.at = "failed"] /\ UNCHANGED ollamaVars
    /\ UNCHANGED <<modelLoaded, jsonCalls, batch, auxVars>>
    /\ UNCHANGED <<wfVars, mcpVars, protoVars>>

\* initializeModel, lines 82-88: the generate call of loadModel settled
InitializeModelLoaded ==
    /\ initPc.at = "load"
    /\ calls[initPc.call].pc = "done"
    /\ IF calls[initPc.call].result.kind = "ok"
       THEN modelLoaded' = TRUE /\ initPc' = [initPc EXCEPT !.at = "done"]
       ELSE modelLoaded' = FALSE /\ initPc' = [initPc EXCEPT !.at = "failed"]
    /\ UNCHANGED <<jsonCalls, batch, auxVars>>
    /\ UNCHANGED ollamaVars
    /\ UNCHANGED <<wfVars, mcpVars, protoVars>>

\* generateJSON, lines 244-256, through generateWithPrompt, line 235:
\* generate({messages, options}) with the prompts of fingerprint f.  The
\* callers come once start-up has got as far as its warm-up or has failed.
GenerateJSON(c, f) ==
    /\ jsonCalls[c].pc = "idle"
    /\ initPc.at \notin {"tags", "pull"}
    /\ f # WarmUpFp
    /\ GenerateCall(c, f, TRUE)
    /\ jsonCalls' = [jsonCalls EXCEPT ![c].pc = "awaitGenerate",
                                      ![c].generates = @ + 1]
    /\ UNCHANGED <<modelLoaded, initPc, batch, auxVars>>
    /\ UNCHANGED <<wfVars, mcpVars, protoVars>>

\* the messages of the errors of lines 219-222 and of line 261
GenerationError == "Generation failed after N attempts"
ParseError == "Failed to parse JSON response"

\* JSON.parse(response) of line 259, by what it makes of the content
ParseJson_AsGenerationError(p) == IF IsJson(p) THEN "value" ELSE GenerationError
ParseJson(p) == IF IsJson(p) THEN "value" ELSE ParseError

\* generateWithPrompt, line 236, and generateJSON, lines 258-262: generate
\* settled.  What it threw is passed on; response.message.content of a body
\* without message throws a TypeError; the content is parsed otherwise.
GenerateJSONResume(c) ==
    /\ jsonCalls[c].pc = "awaitGenerate"
    /\ calls[c].pc = "done"
    /\ LET res == calls[c].result
       IN  jsonCalls' = [jsonCalls EXCEPT
              ![c].pc = "done",
              ![c].outcome =
                  IF res.kind = "generation" THEN GenerationError
                  ELSE IF res.kind = "redis" THEN "redis"
                  ELSE IF ~HasMessage(res.payload) THEN "TypeError"
                  ELSE ParseJson(res.payload)]
    /\ UNCHANGED <<modelLoaded, initPc, batch, auxVars>>
    /\ UNCHANGED ollamaVars
    /\ UNCHANGED <<wfVars, mcpVars, protoVars>>

\* The service from its construction on, with generateJSON as its caller.
ServiceNext ==
    \/ \E c \in CallIds :
          \/ \E ok \in BOOLEAN :
                \/ \E present \in BOOLEAN : InitializeModelTags(c, ok, present)
                \/ InitializeModelPulled(c, ok)
          \/ \E f \in Fps : GenerateJSON(c, f)
          \/ GenerateJSONResume(c)
          \/ BackendSuccess(c)
          \/ \E p \in {ResponseText(c), ResponseNoMessage(c)} : BackendOddResponse(c, p)
          \/ BackendFailure(c)
          \/ RetryAfterBackoff(c)
    \/ InitializeModelLoaded
    \/ RedisGetReply
    \/ RedisSetReply
    \/ RedisError

----------------------------------------------------------------------------
(* OllamaService.batchGenerate *)

\* const batchSize = 4
BatchSize == 4

\* The request lists given to batchGenerate, as the fingerprints of the
\* requests.  Fingerprints are interchangeable: a list uses them in
\* increasing order of first occurrence.
BatchInputs ==
    {reqs \in UNION {[1..n -> Fps] : n \in 0..MaxBatch} :
        \A i \in 1..Len(reqs) :
           \A g \in Fps : g < reqs[i] => \E j \in 1..(i - 1) : reqs[j] = g}

\* what a running segment of generate has made of the state it works on
Segment == [calls |-> calls, ops |-> ops, activeRequests |-> activeRequests,
            redisQueue |-> redisQueue, cachedSince |-> cachedSince]

\* generate(), lines 142-151, within a segment that has run up to `st`
DedupOrRegisterIn(st, c) ==
    LET f == st.calls[c].fp
        o == st.activeRequests[f]
    IN  IF o # NoOp
        THEN IF st.ops[o].state = "resolved"
             THEN [st EXCEPT
                     !.calls = Finish([st.calls EXCEPT ![c].op = o], c, st.ops[o].result),
                     !.cachedSince = NoteSuccess(st.cachedSince, st.calls, c,
                                                 st.ops[o].result)]
             ELSE [st EXCEPT !.calls = [st.calls EXCEPT ![c].op = o,
                                                         ![c].pc = "awaitShared"]]
        ELSE [st EXCEPT
                !.ops = [st.ops EXCEPT ![c] =
                            [state |-> "running", fp |-> f, posts |-> 1, fails |-> 0,
                             lastError |-> NoError, result |-> NoResult]],
                !.activeRequests = [st.activeRequests EXCEPT ![f] = c],
                !.calls = [st.calls EXCEPT ![c].op = c, ![c].registered = TRUE,
                                            ![c].pc = "awaitBackend"]]

\* generate(), lines 124-140, within a segment that has run up to `st`
GenerateIn(st, c, f, uc) ==
    LET started == [st.calls EXCEPT ![c].fp = f, ![c].useCache = uc,
                                    ![c].sawInflight = (st.activeRequests[f] # NoOp),
                                    ![c].afterSuccess = (uc /\ st.cachedSince[f])]
    IN  IF CacheUsed(cfgCacheEnabled, uc)
        THEN [st EXCEPT !.calls = [started EXCEPT ![c].pc = "awaitGet"],
                        !.redisQueue = Append(st.redisQueue,
                                              RedisCmd("GET", f, NoVal, {}, c))]
        ELSE DedupOrRegisterIn([st EXCEPT !.calls = started], c)

\* requests.slice(i, i + batchSize), line 276: the index of its last request
SliceEnd(reqs, i) ==
    IF i + BatchSize < Len(reqs) THEN i + BatchSize ELSE Len(reqs)

\* batch.map((req) => this.generate(...)), lines 277-279: generate is called
\* for the requests of the slice one after the other, request k as call k
RECURSIVE MapGenerate(_, _, _, _)
MapGenerate(st, reqs, k, last) ==
    IF k > last THEN st
    ELSE MapGenerate(GenerateIn(st, k, reqs[k], TRUE), reqs, k + 1, last)

\* Promise.all(batchPromises), line 281: fulfilled when every promise is
AllFulfilled_AnyFulfilled(cs, group) ==
    \E k \in group : cs[k].pc = "done" /\ cs[k].result.kind = "ok"
AllFulfilled(cs, group) ==
    \A k \in group : cs[k].pc = "done" /\ cs[k].result.kind = "ok"

\* Promise.all(batchPromises): rejected as soon as one promise is
AnyRejected(cs, group) ==
    \E k \in group : cs[k].pc = "done" /\ cs[k].result.kind # "ok"

\* the value of Promise.all: the results in the order of the promises
AllResults_Reversed(cs, from, last) ==
    [i \in 1..(last - from) |-> cs[last + 1 - i].result]
AllResults(cs, from, last) ==
    [i \in 1..(last - from) |-> cs[from + i].result]

\* The loop of lines 275-283 from index i on, `b` being the call's state:
\* the calls of the next slice are issued and Promise.all is awaited, or the
\* results are returned.
BatchLoop(b, i) ==
    IF i < Len(b.requests)
    THEN LET last == SliceEnd(b.requests, i)
             st == MapGenerate(Segment, b.requests, i + 1, last)
         IN  /\ batch' = [b EXCEPT !.pc = "awaitAll", !.issued = last]
             /\ calls' = st.calls
             /\ ops' = st.ops
             /\ activeRequests' = st.activeRequests
             /\ redisQueue' = st.redisQueue
             /\ cachedSince' = st.cachedSince
    ELSE /\ batch' = [b EXCEPT !.pc = "done", !.outcome = "ok"]
         /\ UNCHANGED <<calls, ops, activeRequests, redisQueue, cachedSince>>

\* batchGenerate(requests) is called, lines 265-281
BatchGenerate(reqs) ==
    /\ batch.pc = "idle"
    /\ reqs \in BatchInputs
    /\ BatchLoop([batch EXCEPT !.requests = reqs], 0)
    /\ UNCHANGED <<cfgCacheEnabled, cfgMaxRetries, redisStore, clearPc, clears, expiries>>
    /\ UNCHANGED <<modelLoaded, initPc, jsonCalls, auxVars>>
    /\ UNCHANGED <<wfVars, mcpVars, protoVars>>

\* Promise.all of the current slice is fulfilled, lines 281-285: the results
\* are pushed and the loop goes on.
BatchGroupFulfilled ==
    /\ batch.pc = "awaitAll"
    /\ LET from == Len(batch.results)
           group == {k \in 1..batch.issued : k > from}
       IN  /\ AllFulfilled(calls, group)
           /\ BatchLoop([batch EXCEPT !.results =
                                    @ \o AllResults(calls, from, batch.issued)],
                        batch.issued)
    /\ UNCHANGED <<cfgCacheEnabled, cfgMaxRetries, redisStore, clearPc, clears, expiries>>
    /\ UNCHANGED <<modelLoaded, initPc, jsonCalls, auxVars>>
    /\ UNCHANGED <<wfVars, mcpVars, protoVars>>

\* Promise.all of the current slice is rejected, line 281: batchGenerate throws
BatchGroupRejected ==
    /\ batch.pc = "awaitAll"
    /\ AnyRejected(calls, {k \in 1..batch.issued : k > Len(batch.results)})
    /\ batch' = [batch EXCEPT !.pc = "done", !.outcome = "err"]
    /\ UNCHANGED ollamaVars
    /\ UNCHANGED <<modelLoaded, initPc, jsonCalls, auxVars>>
    /\ UNCHANGED <<wfVars, mcpVars, protoVars>>

\* One batchGenerate call on a service that is otherwise idle.
BatchNext ==
    \/ \E reqs \in BatchInputs : BatchGenerate(reqs)
    \/ BatchGroupFulfilled
    \/ BatchGroupRejected
    \/ RedisGetReply
    \/ \E o \in BatchCallIds :
          \/ BackendSuccess(o)
          \/ BackendFailure(o)
          \/ RetryAfterBackoff(o)
    \/ RedisSetReply
    \/ RedisError

----------------------------------------------------------------------------
(* OllamaService.streamGenerate *)

\* The lines of the response stream: a JSON line with message.content (one
\* of two texts), the JSON line with done: true, a line that is not JSON.
\* A data event carries one or two lines.
StreamLines ==
    {[kind |-> "token", content |-> 1], [kind |-> "token", content |-> 2],
     [kind |-> "done", content |-> 0], [kind |-> "bad", content |-> 0]}
StreamChunks == UNION {[1..n -> StreamLines] : n \in 1..2}

\* resolve(fullResponse) and reject(error) settle the promise once
Settle(st, how) ==
    IF st.promise = "pending"
    THEN [st EXCEPT !.promise = how,
                    !.value = IF how = "resolved" THEN st.fullResponse ELSE <<>>]
    ELSE st

\* the data listener, lines 311-331, from line k of the chunk on
RECURSIVE OnData(_, _, _)
OnData(st, lines, k) ==
    IF k > Len(lines) THEN st
    ELSE IF lines[k].kind = "bad" THEN Settle(st, "rejected")
    ELSE IF lines[k].kind = "token"
    THEN OnData([st EXCEPT !.fullResponse = Append(@, lines[k].content),
                           !.passed = Append(@, lines[k].content)],
                lines, k + 1)
    ELSE OnData(Settle(st, "resolved"), lines, k + 1)

StreamFrame ==
    UNCHANGED <<ollamaVars, modelLoaded, initPc, jsonCalls, batch, atClear, restVars,
                wfVars, mcpVars, protoVars>>

\* streamGenerate(params) is called, lines 288-305: the POST is awaited
StreamGenerate ==
    /\ stream.pc = "idle"
    /\ stream' = [stream EXCEPT !.pc = "post", !.promise = "pending"]
    /\ StreamFrame

\* The POST settles, lines 295-310: with the response stream the listeners
\* are attached; a failed request rejects the call.
StreamPostReply(ok) ==
    /\ stream.pc = "post"
    /\ stream' = IF ok THEN [stream EXCEPT !.pc = "open"]
                 ELSE [stream EXCEPT !.pc = "closed", !.promise = "rejected"]
    /\ StreamFrame

\* a data event of the response stream, lines 311-331
StreamData(chunk) ==
    /\ stream.pc = "open"
    /\ stream.events < MaxChunks
    /\ stream' = [OnData(stream, chunk, 1) EXCEPT !.events = @ + 1]
    /\ StreamFrame

\* the error event of the response stream, line 333
StreamError ==
    /\ stream.pc = "open"
    /\ stream' = [Settle(stream, "rejected") EXCEPT !.pc = "closed"]
    /\ StreamFrame

\* The response stream ends: the backend has sent everything or the
\* connection was closed.  No listener is attached for it.
StreamEnd ==
    /\ stream.pc = "open"
    /\ stream' = [stream EXCEPT !.pc = "closed"]
    /\ StreamFrame

StreamNext ==
    \/ StreamGenerate
    \/ \E ok \in BOOLEAN : StreamPostReply(ok)
    \/ \E chunk \in StreamChunks : StreamData(chunk)
    \/ StreamError
    \/ StreamEnd

----------------------------------------------------------------------------
(* MCPProtocol (mcp-server/src/protocols/mcp.ts) and the envelopes received *)

NoTask == 0
NoObj == 0
NoReq == 0
\* uuidv4() never returns a value twice: the session in slot s gets
\* SessionUuid(s), the n-th response of a handler gets ResponseUuid(n);
\* the session_<ms> ids are below UuidBase.
UuidBase == 100
SessionUuid(s) == UuidBase + s
ResponseUuid(n) == 2 * UuidBase + n

\* enum MCPErrorCode
INVALID_REQUEST == -32600

Methods ==
    {"research.start", "research.clarify", "research.approve", "development.start",
     "testing.run", "documentation.generate", "workflow.status"}

\* options.format: the three known formats, an absent one (""), any other
Formats == {"pdf", "latex", "pptx", "", "docx"}

\* A message as received: an object with the fields below (id 0, type "" and
\* method "" stand for an absent or empty field), null, or a string.
Envelope(id, type, method, sid) ==
    [shape |-> "object", id |-> id, type |-> type, method |-> method,
     sessionId |-> sid, answers |-> 0, approved |-> FALSE, feedback |-> FALSE,
     format |-> "none"]
NullMessage == [Envelope(0, "", "", 0) EXCEPT !.shape = "null"]
StringMessage == [Envelope(0, "", "", 0) EXCEPT !.shape = "string"]

\* MCPProtocol.validate
Validate_IgnoresType(message) ==
    /\ message.shape = "object"
    /\ message.id # 0 /\ message.type # "" /\ message.method # ""
Validate(message) ==
    /\ message.shape = "object"
    /\ message.id # 0 /\ message.type # "" /\ message.method # ""
    /\ message.type \in {"request", "response", "notification"}

NoReply ==
    [event |-> "none", id |-> 0, type |-> "none", method |-> "none",
     result |-> "none", error |-> "none", code |-> 0]

\* MCPProtocol.createResponse
CreateResponse(requestId) ==
    [event |-> "mcp:response", id |-> requestId, type |-> "response", method |-> "",
     result |-> "none", error |-> "none", code |-> 0]

\* MCPProtocol.createError
CreateError(requestId, code, message) ==
    [event |-> "mcp:response", id |-> requestId, type |-> "response", method |-> "",
     result |-> "none", error |-> message, code |-> code]

\* what validate reads of its argument
Candidate(shape, id, type, method) ==
    [shape |-> shape, id |-> id, type |-> type, method |-> method]

\* the fields of a created envelope as validate reads them
AsCandidate(envelope) ==
    Candidate("object", envelope.id, envelope.type, envelope.method)

\* MCPProtocol.createRequest: id is Date.now().toString()
CreateRequest(ms, method) == Candidate("object", ms, "request", method)

\* MCPProtocol.createNotification: id is Date.now().toString()
CreateNotification(ms, method) == Candidate("object", ms, "notification", method)

\* the method names passed to the factories: one of the service, the empty string
FactoryMethods == {"research.start", ""}

\* the request ids passed to createResponse and createError: "" and two ids
RequestIds == 0..2

\* Arguments of validate other than created envelopes: null, a string, and
\* objects with each of id, type and method absent or present, the type being
\* of the enumeration or not.
Candidates ==
    {Candidate("null", 0, "", ""), Candidate("string", 0, "", "")} \cup
    {Candidate("object", id, type, method) :
        id \in {0, 1}, type \in {"", "request", "response", "notification", "bogus"},
        method \in FactoryMethods}

\* Everything but the protocol's own variables and the clock stays as it is.
ProtocolFrame ==
    UNCHANGED <<ollamaVars, svcVars, objs, workflows, savedWf, listeners, researchResults,
                tasks, failures, invoked, mcpVars>>

\* createRequest(method) is called; Date.now() returns `ms`
CreateRequestCall(ms, method) ==
    /\ Len(made) < MaxMade
    /\ ms \in WfKeys
    /\ ms \in {now, now + 1}
    /\ now' = ms
    /\ made' = Append(made, [by |-> "createRequest", msg |-> CreateRequest(ms, method)])
    /\ UNCHANGED checked
    /\ ProtocolFrame

\* createNotification(method) is called; Date.now() returns `ms`
CreateNotificationCall(ms, method) ==
    /\ Len(made) < MaxMade
    /\ ms \in WfKeys
    /\ ms \in {now, now + 1}
    /\ now' = ms
    /\ made' = Append(made, [by |-> "createNotification",
                             msg |-> CreateNotification(ms, method)])
    /\ UNCHANGED checked
    /\ ProtocolFrame

\* createResponse(requestId, result) is called
CreateResponseCall(requestId) ==
    /\ Len(made) < MaxMade
    /\ made' = Append(made, [by |-> "createResponse",
                             msg |-> AsCandidate(CreateResponse(requestId))])
    /\ UNCHANGED <<now, checked>>
    /\ ProtocolFrame

\* createError(requestId, code, message) is called
CreateErrorCall(requestId) ==
    /\ Len(made) < MaxMade
    /\ made' = Append(made,
                 [by |-> "createError",
                  msg |-> AsCandidate(CreateError(requestId, INVALID_REQUEST,
                                                  "Invalid request"))])
    /\ UNCHANGED <<now, checked>>
    /\ ProtocolFrame

\* validate(message) is called
ValidateCall(by, message) ==
    /\ checked' = [called |-> TRUE, by |-> by, msg |-> message,
                   verdict |-> Validate(message)]
    /\ UNCHANGED <<now, made>>
    /\ ProtocolFrame

\* validate is given the i-th envelope the factories returned
ValidateMade(i) ==
    /\ i \in 1..Len(made)
    /\ ValidateCall(made[i].by, made[i].msg)

\* validate is given something that came from elsewhere
ValidateCandidate(message) ==
    /\ message \in Candidates
    /\ ValidateCall("caller", message)

ProtocolNext ==
    \/ \E ms \in WfKeys, method \in FactoryMethods :
          \/ CreateRequestCall(ms, method)
          \/ CreateNotificationCall(ms, method)
    \/ \E requestId \in RequestIds :
          \/ CreateResponseCall(requestId)
          \/ CreateErrorCall(requestId)
    \/ \E i \in 1..MaxMade : ValidateMade(i)
    \/ \E message \in Candidates : ValidateCandidate(message)

\* what the result of a handler's response holds, by the operation the
\* handler awaited: lines 223-227, 256-260, 283-287, 308-312, 325-329 and
\* the results of the remaining handlers
ResultOf(kind) ==
    CASE kind = "generateClarificationQuestions" -> "questions"
      [] kind = "generateFollowUpQuestions" -> "needsMoreClarification"
      [] kind = "createResearchPlan" -> "researchPlan"
      [] kind = "refineResearch" -> "refining"
      [] kind = "startDevelopment" -> "development"
      [] OTHER -> "status"

\* the object every method handler of MCPHandler returns (e.g. lines 219-229)
HandlerResponse(uuid, message, kind) ==
    [event |-> "mcp:response", id |-> uuid, type |-> "response",
     method |-> message.method, result |-> ResultOf(kind),
     error |-> "none", code |-> 0]

\* the mcp:error payload of the socket handler, lines 108-115
ErrorEvent(message, error) ==
    [event |-> "mcp:error", id |-> message.id, type |-> "none", method |-> "none",
     result |-> "none", error |-> error, code |-> 0]

\* the socket handler threw while handling its own error: nothing is emitted
Unhandled == [NoReply EXCEPT !.event = "unhandled"]

----------------------------------------------------------------------------
(* WorkflowManager (mcp-server/src/managers/workflow.ts) *)

\* enum ResearchStage, in declaration order
StageSeq ==
    <<"initial", "clarification", "research", "development", "testing",
      "documentation", "completed">>
Stages == {StageSeq[i] : i \in DOMAIN StageSeq}
StageIndex(stage) == CHOOSE i \in DOMAIN StageSeq : StageSeq[i] = stage

\* the sources list of ResearchOrchestrator.crawlPapers: arxiv, scholar, ieee, acm
NumSources == 4
\* runTestsWithRetry(projectId, maxRetries = 3)
TestMaxRetries == 3


\* initializeStages(): every stage pending with progress 0
InitialStage == [status |-> "pending", progress |-> 0, started |-> FALSE, ended |-> FALSE]

NewWorkflowState(key) ==
    [sessionId |-> key,
     currentStage |-> "research",
     stages |-> [st \in Stages |-> InitialStage],
     errors |-> <<>>,
     projectId |-> FALSE]

NoWorkflowState ==
    [sessionId |-> 0,
     currentStage |-> "initial",
     stages |-> [st \in Stages |-> InitialStage],
     errors |-> <<>>,
     projectId |-> FALSE]

IdleTask ==
    [kind |-> "none", id |-> 0, pc |-> "idle", ref |-> NoObj, aux |-> 0,
     fmt |-> "none", outcome |-> "none", error |-> "none", docs |-> {}]

WfInit ==
    /\ now = 0
    /\ objs = [o \in ObjIds |-> NoWorkflowState]
    /\ workflows = [k \in WfKeys |-> NoObj]
    /\ savedWf = [k \in WfKeys |-> NoWorkflowState]
    /\ listeners = [k \in WfKeys |-> 0]
    /\ researchResults = {}
    /\ tasks = [t \in TaskIds |-> IdleTask]
    /\ failures = 0
    /\ invoked = 0

IdleRequest == [msg |-> NullMessage, pc |-> "idle", task |-> NoTask, handler |-> "none"]

\* A session of MCPHandler, lines 175-196.  `workflow` is a history field the
\* code does not have: the WorkflowState that createResearchPlan made on
\* behalf of the session (handleClarification drops its sessionId).
NoSession ==
    [exists |-> FALSE, id |-> 0, stage |-> "initial", clarifications |-> 0,
     workflow |-> NoObj]

McpInit ==
    /\ sessions = [s \in SessionSlots |-> NoSession]
    /\ requests = [r \in ReqIds |-> IdleRequest]
    /\ replies = [r \in ReqIds |-> NoReply]
    /\ uuidCount = 0
    /\ pushes = {}

\* what redis holds under workflow:<key>, lines 557-559
Stored(key) == IF key \in WfKeys THEN savedWf[key] ELSE NoWorkflowState

\* this.workflows.get(sessionId)
Lookup(key) == IF key \in WfKeys THEN workflows[key] ELSE NoObj

\* updateStageProgress, lines 590-606, on one WorkflowState
SetStage(rec, stage, status, progress) ==
    [rec EXCEPT !.stages[stage] =
        [status |-> status, progress |-> progress,
         started |-> @.started \/ status = "in_progress",
         ended |-> @.ended \/ status \in {"completed", "failed"}]]

\* The heap and the durable copies after updateStageProgress(sessionId, ...):
\* the object found in the map is changed and a write of it is issued
\* (lines 587-609); nothing happens when the map has no such session.
UpdateStageProgress(heap, saved, key, stage, status, progress) ==
    LET o == Lookup(key)
    IN  IF o = NoObj
        THEN [heap |-> heap, saved |-> saved]
        ELSE LET rec == SetStage(heap[o], stage, status, progress)
             IN  [heap |-> [heap EXCEPT ![o] = rec],
                  saved |-> [saved EXCEPT ![rec.sessionId] = rec]]

\* getStageProgress, lines 620-626
GetStageProgress(heap, key, stage) ==
    IF Lookup(key) = NoObj THEN 0 ELSE heap[Lookup(key)].stages[stage].progress

\* workflow.errors.find((e) => e.stage === stage), line 646: the position
\* of the first entry of the stage, 0 when there is none
ExistingError_NeverFound(errs, stage) == 0

ExistingError(errs, stage) ==
    LET found == {i \in 1..Len(errs) : errs[i].stage = stage}
    IN  IF found = {} THEN 0 ELSE CHOOSE i \in found : \A j \in found : i <= j

\* recordError, lines 638-662: the entry of the stage gets retryCount + 1
\* and the new message, or a first entry with retryCount 0 is pushed; the
\* stage is then failed at 0 and the state is written.
RecordError(heap, saved, key, stage, message) ==
    LET o == Lookup(key)
    IN  IF o = NoObj
        THEN [heap |-> heap, saved |-> saved]
        ELSE LET errs == heap[o].errors
                 i == ExistingError(errs, stage)
                 rec == [heap[o] EXCEPT !.errors =
                            IF i # 0
                            THEN [errs EXCEPT ![i].retryCount = @ + 1,
                                              ![i].error = message]
                            ELSE Append(errs, [stage |-> stage, error |-> message,
                                               retryCount |-> 0])]
                 h1 == [heap EXCEPT ![o] = rec]
             IN  UpdateStageProgress(h1, saved, key, stage, "failed", 0)

\* A task returns, or throws `message`.
TaskDone(ts, t, outcome, message) ==
    [ts EXCEPT ![t].pc = "done", ![t].outcome = outcome, ![t].error = message]

\* A collaborator call may fail while the failure budget lasts.
MayFail(ok) == ok \/ failures < MaxFailures
CountFailure(ok) == failures' = IF ok THEN failures ELSE failures + 1


----------------------------------------------------------------------------
(* MCPHandler (mcp-server/src/index.ts): what a handler does around its call *)
(* of a WorkflowManager operation                                           *)

\* this.sessions.get(sessionId), as the slot of the session or 0
SessionOf(sid) ==
    IF \E s \in SessionSlots : sessions[s].exists /\ sessions[s].id = sid
    THEN CHOOSE s \in SessionSlots : sessions[s].exists /\ sessions[s].id = sid
    ELSE 0

\* handleClarification, line 245: session.clarifications.length < 2
NeedsMoreClarification_OffByOne(count) == count <= 2

NeedsMoreClarification(count) == count < 2

\* The WorkflowManager operation a method handler calls first.
FirstCall(message) ==
    LET s == SessionOf(message.sessionId)
    IN  CASE message.method = "research.start" -> "generateClarificationQuestions"
          [] message.method = "research.clarify" ->
                IF NeedsMoreClarification(sessions[s].clarifications + message.answers)
                THEN "generateFollowUpQuestions" ELSE "createResearchPlan"
          [] message.method = "research.approve" ->
                IF ~message.approved /\ message.feedback
                THEN "refineResearch" ELSE "startDevelopment"
          [] message.method = "development.start" -> "getDevelopmentStatus"
          [] message.method = "testing.run" -> "runTests"
          [] message.method = "documentation.generate" -> "generateDocuments"
          [] message.method = "workflow.status" -> "getWorkflowStatus"

NeedsSession(message) ==
    message.method \in {"research.start", "research.clarify", "research.approve"}

\* A handler is at an await whose operation has settled: its continuation
\* runs before anything else does.
Resumable(r) ==
    /\ requests[r].pc = "awaitTask"
    /\ tasks[requests[r].task].pc = "done"

Quiescent == \A r \in ReqIds : ~Resumable(r)

\* handleClarification after createResearchPlan returned: lines 272-290
PlanReturned(r) ==
    /\ Resumable(r)
    /\ requests[r].msg.method = "research.clarify"
    /\ tasks[requests[r].task].kind = "createResearchPlan"
    /\ tasks[requests[r].task].outcome = "ok"

NewRequest(r) ==
    /\ requests[r].pc = "idle"
    /\ IF r = 1 THEN TRUE ELSE requests[r - 1].pc # "idle"

\* Who invokes an operation: nobody of this model (the method is called
\* directly), the handler of message `msg` received as request `req`, or the
\* handler of `req` continuing after an earlier call.
DirectCall == [req |-> NoReq, phase |-> "direct", msg |-> NullMessage]
Dispatched(r, message) == [req |-> r, phase |-> "dispatch", msg |-> message]
Continued(r) == [req |-> r, phase |-> "continue", msg |-> requests[r].msg]

\* handleMCPRequest, lines 148-172, and the handler's code up to its first
\* call into the WorkflowManager: the session lookup and the changes of the
\* session made before the call (lines 242, 266, 318).
Dispatch(r, message, t, inv) ==
    /\ Quiescent
    /\ NewRequest(r)
    /\ message.shape = "object"
    /\ message.method \in Methods
    /\ NeedsSession(message) => SessionOf(message.sessionId) # 0
    /\ inv.kind = FirstCall(message)
    /\ inv.kind \notin {"createResearchPlan", "generateClarificationQuestions",
                        "generateFollowUpQuestions"}
          => inv.key = message.sessionId
    /\ inv.kind = "generateDocuments" => inv.fmt \in {"unused", message.format}
    /\ requests' = [requests EXCEPT ![r] =
                       [msg |-> message, pc |-> "awaitTask", task |-> t,
                        handler |-> message.method]]
    /\ LET s == SessionOf(message.sessionId)
       IN  sessions' =
             IF message.method = "research.clarify"
             THEN [sessions EXCEPT
                     ![s].clarifications = @ + message.answers,
                     ![s].stage = IF NeedsMoreClarification(sessions[s].clarifications
                                                            + message.answers)
                                  THEN @ ELSE "research",
                     ![s].workflow = IF NeedsMoreClarification(sessions[s].clarifications
                                                               + message.answers)
                                     THEN @ ELSE invoked + 1]
             ELSE IF message.method = "research.approve"
                     /\ ~(~message.approved /\ message.feedback)
             THEN [sessions EXCEPT ![s].stage = "development"]
             ELSE sessions
    /\ UNCHANGED <<replies, uuidCount, pushes>>

\* handleClarification, lines 272-289: executeResearch is called without
\* being awaited and the response is returned.
ContinueClarify(r, t, inv) ==
    /\ PlanReturned(r)
    /\ inv.kind = "executeResearch"
    /\ inv.key = requests[r].msg.sessionId
    /\ requests' = [requests EXCEPT ![r].pc = "done"]
    /\ replies' = [replies EXCEPT ![r] =
                      HandlerResponse(ResponseUuid(uuidCount + 1), requests[r].msg,
                                      tasks[requests[r].task].kind)]
    /\ uuidCount' = uuidCount + 1
    /\ UNCHANGED <<sessions, pushes>>

Caller(call, t, inv) ==
    IF call.phase = "direct"
    THEN Quiescent /\ UNCHANGED mcpVars
    ELSE IF call.phase = "dispatch"
    THEN Dispatch(call.req, call.msg, t, inv)
    ELSE ContinueClarify(call.req, t, inv)

Invocation(kind, key, fmt) == [kind |-> kind, key |-> key, fmt |-> fmt]

\* A new operation is invoked, the (invoked + 1)-th: it takes the first slot
\* whose operation has settled.
CanStart(t) ==
    /\ invoked < MaxTasks
    /\ tasks[t].pc \in {"idle", "done"}
    /\ \A u \in TaskIds : u < t => tasks[u].pc \notin {"idle", "done"}
    /\ invoked' = invoked + 1

\* Task t is suspended at `pc` and the awaited call settles now.
At(t, pc) == Quiescent /\ tasks[t].pc = pc /\ UNCHANGED invoked

\* createResearchPlan, lines 137-150: a new WorkflowState under the id
\* session_<Date.now()> is put into the map and its first write is awaited.
\* Date.now() returns `ms`: the millisecond of the previous call or a later one.
CreateResearchPlanStart(t, ms, call) ==
    /\ CanStart(t)
    /\ ms \in WfKeys
    /\ ms \in {now, now + 1}
    /\ now' = ms
    /\ Caller(call, t, Invocation("createResearchPlan", 0, "none"))
    /\ objs' = [objs EXCEPT ![invoked + 1] = NewWorkflowState(ms)]
    /\ workflows' = [workflows EXCEPT ![ms] = invoked + 1]
    /\ tasks' = [tasks EXCEPT ![t] =
                    [IdleTask EXCEPT !.kind = "createResearchPlan", !.id = ms,
                                     !.ref = invoked + 1, !.pc = "crp_save"]]
    /\ UNCHANGED <<savedWf, listeners, researchResults, failures>>
    /\ UNCHANGED brokerVars

\* createResearchPlan, lines 150-164: the first write settled. If it was
\* stored, progress 10 follows, whose write replaces it, and the orchestrator
\* is asked for the plan; if it failed the method throws, nothing is stored
\* and the WorkflowState stays in the map.
CreateResearchPlanSaved(t, ok) ==
    /\ At(t, "crp_save")
    /\ MayFail(ok)
    /\ CountFailure(ok)
    /\ IF ok
       THEN LET u == UpdateStageProgress(objs, savedWf, tasks[t].id,
                                         "research", "in_progress", 10)
            IN  /\ objs' = u.heap
                /\ savedWf' = u.saved
                /\ tasks' = [tasks EXCEPT ![t].pc = "crp_plan"]
       ELSE /\ tasks' = TaskDone(tasks, t, "err", "redis")
            /\ UNCHANGED <<objs, savedWf>>
    /\ UNCHANGED <<now, workflows, listeners, researchResults>>
    /\ UNCHANGED <<brokerVars, mcpVars>>

\* createResearchPlan, lines 161-174: the plan arrived (progress 30), or the
\* orchestrator threw, which this method does not catch.
CreateResearchPlanPlanned(t, ok) ==
    /\ At(t, "crp_plan")
    /\ MayFail(ok)
    /\ CountFailure(ok)
    /\ IF ok
       THEN LET u == UpdateStageProgress(objs, savedWf, tasks[t].id,
                                         "research", "in_progress", 30)
            IN  /\ objs' = u.heap
                /\ savedWf' = u.saved
                /\ tasks' = TaskDone(tasks, t, "ok", "none")
       ELSE /\ tasks' = TaskDone(tasks, t, "err", "plan failed")
            /\ UNCHANGED <<objs, savedWf>>
    /\ UNCHANGED <<now, workflows, listeners, researchResults>>
    /\ UNCHANGED <<brokerVars, mcpVars>>

\* Lookup at the head of executeResearch, refineResearch, startDevelopment,
\* runTests and generateDocuments: throw when the map has no such session.
WorkflowNotFound(t, kind, key, call) ==
    /\ CanStart(t)
    /\ Caller(call, t, Invocation(kind, key, "unused"))
    /\ Lookup(key) = NoObj
    /\ tasks' = TaskDone([tasks EXCEPT ![t] = [IdleTask EXCEPT !.kind = kind, !.id = key]], t,
                         "err", "Workflow not found")
    /\ UNCHANGED <<now, objs, workflows, savedWf, listeners, researchResults, failures>>
    /\ UNCHANGED brokerVars

\* executeResearch, lines 181-207: a crawl:progress listener for the session
\* is added to the orchestrator, whose executeResearch starts crawling.
ExecuteResearchStart(t, key, call) ==
    /\ CanStart(t)
    /\ Caller(call, t, Invocation("executeResearch", key, "none"))
    /\ Lookup(key) # NoObj
    /\ listeners' = [listeners EXCEPT ![key] = @ + 1]
    /\ tasks' = [tasks EXCEPT ![t] =
                    [IdleTask EXCEPT !.kind = "executeResearch", !.id = key,
                                     !.ref = Lookup(key), !.pc = "crawl",
                                     !.aux = NumSources]]
    /\ UNCHANGED <<now, objs, workflows, savedWf, researchResults, failures>>
    /\ UNCHANGED brokerVars

\* The listeners of lines 188-200 run once each, in registration order; all
\* listeners of one session do the same, so k of them are k applications.
RECURSIVE BumpSession(_, _, _)
BumpSession(hs, key, k) ==
    IF k = 0
    THEN hs
    ELSE LET currentProgress == GetStageProgress(hs.heap, key, "research")
             newProgress == IF currentProgress + 10 < 90
                            THEN currentProgress + 10 ELSE 90
             u == UpdateStageProgress(hs.heap, hs.saved, key, "research",
                                      "in_progress", newProgress)
         IN  BumpSession(u, key, k - 1)

RECURSIVE EmitCrawlProgress(_, _)
EmitCrawlProgress(hs, keys) ==
    IF keys = {}
    THEN hs
    ELSE LET key == CHOOSE k \in keys : \A j \in keys : k <= j
         IN  EmitCrawlProgress(BumpSession(hs, key, listeners[key]), keys \ {key})

\* crawlPapers (orchestrator), lines 211-225: one source is crawled; on
\* success crawl:progress is emitted to every listener, a failure is skipped.
CrawlSource(t, ok) ==
    /\ At(t, "crawl")
    /\ tasks[t].aux > 0
    /\ MayFail(ok)
    /\ CountFailure(ok)
    /\ LET u == IF ok
                THEN EmitCrawlProgress([heap |-> objs, saved |-> savedWf], WfKeys)
                ELSE [heap |-> objs, saved |-> savedWf]
       IN  /\ objs' = u.heap
           /\ savedWf' = u.saved
    /\ tasks' = [tasks EXCEPT ![t].aux = @ - 1]
    /\ UNCHANGED <<now, workflows, listeners, researchResults>>
    /\ UNCHANGED <<brokerVars, mcpVars>>

\* rankPapers (orchestrator), lines 356-395, awaited by crawlPapers at line
\* 231 once every source was tried: generateJSON ranks the papers, and its
\* rejection leaves crawlPapers and the orchestrator's executeResearch
\* (catch of lines 196-199 rethrows) to the catch of lines 214-220.
RankPapers(t, ok) ==
    /\ At(t, "crawl")
    /\ tasks[t].aux = 0
    /\ MayFail(ok)
    /\ CountFailure(ok)
    /\ LET u == IF ok
                THEN [heap |-> objs, saved |-> savedWf]
                ELSE RecordError(objs, savedWf, tasks[t].id, "research",
                                 "ranking failed")
       IN  /\ objs' = u.heap
           /\ savedWf' = u.saved
    /\ tasks' = IF ok THEN [tasks EXCEPT ![t].pc = "ranked"]
                ELSE TaskDone(tasks, t, "err", "ranking failed")
    /\ UNCHANGED <<now, workflows, listeners, researchResults>>
    /\ UNCHANGED <<brokerVars, mcpVars>>

\* executeResearch, lines 203-221: the orchestrator finished the remaining
\* phases and stored the results (research completed, 100), or threw.
ExecuteResearchFinish(t, ok) ==
    /\ At(t, "ranked")
    /\ MayFail(ok)
    /\ CountFailure(ok)
    /\ LET u == IF ok
                THEN UpdateStageProgress(objs, savedWf, tasks[t].id,
                                         "research", "completed", 100)
                ELSE RecordError(objs, savedWf, tasks[t].id, "research",
                                 "research failed")
       IN  /\ objs' = u.heap
           /\ savedWf' = u.saved
    /\ researchResults' = IF ok THEN researchResults \cup {tasks[t].id}
                          ELSE researchResults
    /\ tasks' = IF ok THEN TaskDone(tasks, t, "ok", "none")
                ELSE TaskDone(tasks, t, "err", "research failed")
    /\ UNCHANGED <<now, workflows, listeners>>
    /\ UNCHANGED <<brokerVars, mcpVars>>

\* refineResearch, lines 228-245: research is set to in_progress 50 and the
\* orchestrator is asked to refine.
RefineResearchStart(t, key, call) ==
    /\ CanStart(t)
    /\ Caller(call, t, Invocation("refineResearch", key, "none"))
    /\ Lookup(key) # NoObj
    /\ LET u == UpdateStageProgress(objs, savedWf, key, "research", "in_progress", 50)
       IN  /\ objs' = u.heap
           /\ savedWf' = u.saved
    /\ tasks' = [tasks EXCEPT ![t] =
                    [IdleTask EXCEPT !.kind = "refineResearch", !.id = key,
                                     !.ref = Lookup(key), !.pc = "refine"]]
    /\ UNCHANGED <<now, workflows, listeners, researchResults, failures>>
    /\ UNCHANGED brokerVars

\* refineResearch, lines 241-255: the orchestrator refined the stored results
\* (research completed, 100); it throws when there are none or a call fails.
RefineResearchFinish(t, ok) ==
    /\ At(t, "refine")
    /\ ok => tasks[t].id \in researchResults
    /\ tasks[t].id \in researchResults => MayFail(ok)
    /\ failures' = IF ok \/ tasks[t].id \notin researchResults
                   THEN failures ELSE failures + 1
    /\ LET u == IF ok
                THEN UpdateStageProgress(objs, savedWf, tasks[t].id,
                                         "research", "completed", 100)
                ELSE RecordError(objs, savedWf, tasks[t].id, "research",
                                 "refine failed")
       IN  /\ objs' = u.heap
           /\ savedWf' = u.saved
    /\ tasks' = IF ok THEN TaskDone(tasks, t, "ok", "none")
                ELSE TaskDone(tasks, t, "err", "refine failed")
    /\ UNCHANGED <<now, workflows, listeners, researchResults>>
    /\ UNCHANGED <<brokerVars, mcpVars>>

\* The catch blocks of startDevelopment, runTests and generateDocuments:
\* recordError on the owning stage, then rethrow.
FailStage(t, stage, message) ==
    LET u == RecordError(objs, savedWf, tasks[t].id, stage, message)
    IN  /\ objs' = u.heap
        /\ savedWf' = u.saved
        /\ tasks' = TaskDone(tasks, t, "err", message)

\* startDevelopment, lines 259-277: currentStage of the looked-up object
\* becomes development, development is in_progress 10, the research results
\* are read.
StartDevelopmentStart(t, key, call) ==
    /\ CanStart(t)
    /\ Caller(call, t, Invocation("startDevelopment", key, "none"))
    /\ Lookup(key) # NoObj
    /\ LET o == Lookup(key)
           h1 == [objs EXCEPT ![o].currentStage = "development"]
           u == UpdateStageProgress(h1, savedWf, key, "development", "in_progress", 10)
       IN  /\ objs' = u.heap
           /\ savedWf' = u.saved
           /\ tasks' = [tasks EXCEPT ![t] =
                           [IdleTask EXCEPT !.kind = "startDevelopment", !.id = key,
                                            !.ref = o, !.pc = "dev_results"]]
    /\ UNCHANGED <<now, workflows, listeners, researchResults, failures>>
    /\ UNCHANGED brokerVars

\* startDevelopment, lines 275-293: the stored research results arrive and
\* the project creation is requested; without results the method throws.
StartDevelopmentResults(t, ok) ==
    /\ At(t, "dev_results")
    /\ ok => tasks[t].id \in researchResults
    /\ tasks[t].id \in researchResults => MayFail(ok)
    /\ failures' = IF ok \/ tasks[t].id \notin researchResults
                   THEN failures ELSE failures + 1
    /\ IF ok
       THEN /\ tasks' = [tasks EXCEPT ![t].pc = "dev_project"]
            /\ UNCHANGED <<objs, savedWf>>
       ELSE FailStage(t, "development", "Research results not found")
    /\ UNCHANGED <<now, workflows, listeners, researchResults>>
    /\ UNCHANGED <<brokerVars, mcpVars>>

\* startDevelopment, lines 285-314: the project was created; its id is kept
\* in the metadata, development is at 20, code generation is requested.
StartDevelopmentProject(t, ok) ==
    /\ At(t, "dev_project")
    /\ MayFail(ok)
    /\ CountFailure(ok)
    /\ IF ok
       THEN LET h1 == [objs EXCEPT ![tasks[t].ref].projectId = TRUE]
                u == UpdateStageProgress(h1, savedWf, tasks[t].id,
                                         "development", "in_progress", 20)
            IN  /\ objs' = u.heap
                /\ savedWf' = u.saved
                /\ tasks' = [tasks EXCEPT ![t].pc = "dev_generate"]
       ELSE FailStage(t, "development", "project create failed")
    /\ UNCHANGED <<now, workflows, listeners, researchResults>>
    /\ UNCHANGED <<brokerVars, mcpVars>>

\* startDevelopment, lines 307-325: the code was generated; development is
\* at 60 and the first test run of runTestsWithRetry is requested.
StartDevelopmentGenerated(t, ok) ==
    /\ At(t, "dev_generate")
    /\ MayFail(ok)
    /\ CountFailure(ok)
    /\ IF ok
       THEN LET u == UpdateStageProgress(objs, savedWf, tasks[t].id,
                                         "development", "in_progress", 60)
            IN  /\ objs' = u.heap
                /\ savedWf' = u.saved
                /\ tasks' = [tasks EXCEPT ![t].pc = "dev_tests", ![t].aux = 0]
       ELSE FailStage(t, "development", "code generation failed")
    /\ UNCHANGED <<now, workflows, listeners, researchResults>>
    /\ UNCHANGED <<brokerVars, mcpVars>>

\* runTestsWithRetry, line 756: after run `attempt` (from 0) the loop
\* `for (attempt = 0; attempt < maxRetries; attempt++)` makes another run
AnotherRun_OneMore(attempt) == attempt < TestMaxRetries

AnotherRun(attempt) == attempt + 1 < TestMaxRetries

\* runTestsWithRetry, lines 756-784, and startDevelopment, lines 327-337:
\* one POST /test/run answered.  A run with no failed test ends the loop
\* (development completed 100, currentStage testing, write awaited); a run
\* that reports failed tests, or whose request fails (lastError), is retried
\* until maxRetries runs were made, then lastError or "Tests failed after
\* retries" is thrown.
StartDevelopmentTested(t, run) ==
    /\ At(t, "dev_tests")
    /\ MayFail(run # "error")
    /\ CountFailure(run # "error")
    /\ IF run = "passed"
       THEN LET u == UpdateStageProgress(objs, savedWf, tasks[t].id,
                                         "development", "completed", 100)
                o == tasks[t].ref
                h2 == [u.heap EXCEPT ![o].currentStage = "testing"]
            IN  /\ objs' = h2
                /\ savedWf' = [u.saved EXCEPT ![h2[o].sessionId] = h2[o]]
                /\ tasks' = [tasks EXCEPT ![t].pc = "dev_save", ![t].error = "none"]
       ELSE LET lastError == IF run = "error" THEN "test request failed"
                             ELSE tasks[t].error
            IN  IF AnotherRun(tasks[t].aux)
                THEN /\ tasks' = [tasks EXCEPT ![t].aux = @ + 1,
                                               ![t].error = lastError]
                     /\ UNCHANGED <<objs, savedWf>>
                ELSE FailStage(t, "development",
                               IF lastError # "none" THEN lastError
                               ELSE "Tests failed after retries")
    /\ UNCHANGED <<now, workflows, listeners, researchResults>>
    /\ UNCHANGED <<brokerVars, mcpVars>>

\* startDevelopment, lines 337-345: the awaited write settled.
StartDevelopmentSaved(t, ok) ==
    /\ At(t, "dev_save")
    /\ MayFail(ok)
    /\ CountFailure(ok)
    /\ IF ok
       THEN /\ tasks' = TaskDone(tasks, t, "ok", "none")
            /\ UNCHANGED <<objs, savedWf>>
       ELSE FailStage(t, "development", "redis")
    /\ UNCHANGED <<now, workflows, listeners, researchResults>>
    /\ UNCHANGED <<brokerVars, mcpVars>>

\* runTests, lines 349-357: no project id in the metadata.
RunTestsNoProject(t, key, call) ==
    /\ CanStart(t)
    /\ Caller(call, t, Invocation("runTests", key, "none"))
    /\ Lookup(key) # NoObj
    /\ ~objs[Lookup(key)].projectId
    /\ tasks' = TaskDone([tasks EXCEPT ![t] = [IdleTask EXCEPT !.kind = "runTests", !.id = key]], t,
                         "err", "Project ID not found")
    /\ UNCHANGED <<now, objs, workflows, savedWf, listeners, researchResults, failures>>
    /\ UNCHANGED brokerVars

\* runTests, lines 349-372: testing is in_progress 10, a test run is requested.
RunTestsStart(t, key, call) ==
    /\ CanStart(t)
    /\ Caller(call, t, Invocation("runTests", key, "none"))
    /\ Lookup(key) # NoObj
    /\ objs[Lookup(key)].projectId
    /\ LET u == UpdateStageProgress(objs, savedWf, key, "testing", "in_progress", 10)
       IN  /\ objs' = u.heap
           /\ savedWf' = u.saved
    /\ tasks' = [tasks EXCEPT ![t] =
                    [IdleTask EXCEPT !.kind = "runTests", !.id = key,
                                     !.ref = Lookup(key), !.pc = "test_run"]]
    /\ UNCHANGED <<now, workflows, listeners, researchResults, failures>>
    /\ UNCHANGED brokerVars

\* runTests, lines 367-382: the run answered with `failed` failing tests (0
\* or 1 here) and the results are written; a failing request is caught.
RunTestsRan(t, ok, failed) ==
    /\ At(t, "test_run")
    /\ MayFail(ok)
    /\ CountFailure(ok)
    /\ IF ok
       THEN /\ tasks' = [tasks EXCEPT ![t].pc = "test_save", ![t].aux = failed]
            /\ UNCHANGED <<objs, savedWf>>
       ELSE /\ failed = 0
            /\ FailStage(t, "testing", "test run failed")
    /\ UNCHANGED <<now, workflows, listeners, researchResults>>
    /\ UNCHANGED <<brokerVars, mcpVars>>

\* runTests, lines 377-397: the results are stored; testing is completed at
\* 100 when no test failed and at 80 otherwise.
RunTestsSaved(t, ok) ==
    /\ At(t, "test_save")
    /\ MayFail(ok)
    /\ CountFailure(ok)
    /\ IF ok
       THEN LET progress == IF tasks[t].aux = 0 THEN 100 ELSE 80
                u == UpdateStageProgress(objs, savedWf, tasks[t].id,
                                         "testing", "completed", progress)
            IN  /\ objs' = u.heap
                /\ savedWf' = u.saved
                /\ tasks' = TaskDone(tasks, t, "ok", "none")
       ELSE FailStage(t, "testing", "redis")
    /\ UNCHANGED <<now, workflows, listeners, researchResults>>
    /\ UNCHANGED <<brokerVars, mcpVars>>

\* generateDocuments, lines 422, 443, 465: the generators a format selects,
\* numbered 1 (report), 2 (paper), 3 (presentation); an absent format
\* selects all and an unknown one none.
Generators(fmt) ==
    IF fmt = "pdf" THEN {1}
    ELSE IF fmt = "latex" THEN {2}
    ELSE IF fmt = "pptx" THEN {3}
    ELSE IF fmt = "" THEN {1, 2, 3}
    ELSE {}

NextGenerator(fmt, after) ==
    LET rest == {g \in Generators(fmt) : g > after}
    IN  IF rest = {} THEN 0 ELSE CHOOSE g \in rest : \A h \in rest : g <= h

\* generateDocuments, lines 487-496: documentation is completed at 100,
\* currentStage of the looked-up object becomes completed and is written.
CompleteDocuments(hs, key, o) ==
    LET u == UpdateStageProgress(hs.heap, hs.saved, key, "documentation",
                                 "completed", 100)
        h == [u.heap EXCEPT ![o].currentStage = "completed"]
    IN  [heap |-> h, saved |-> [u.saved EXCEPT ![h[o].sessionId] = h[o]]]

\* generateDocuments, lines 404-428: currentStage of the looked-up object
\* becomes documentation, documentation is in_progress 10, the first
\* generator of the format is requested; with no generator to run the
\* method goes on to lines 487-496.
GenerateDocumentsStart(t, key, fmt, call) ==
    /\ CanStart(t)
    /\ Caller(call, t, Invocation("generateDocuments", key, fmt))
    /\ Lookup(key) # NoObj
    /\ LET o == Lookup(key)
           h1 == [objs EXCEPT ![o].currentStage = "documentation"]
           u == UpdateStageProgress(h1, savedWf, key, "documentation",
                                    "in_progress", 10)
           first == NextGenerator(fmt, 0)
           v == IF first = 0 THEN CompleteDocuments(u, key, o) ELSE u
       IN  /\ objs' = v.heap
           /\ savedWf' = v.saved
           /\ tasks' = [tasks EXCEPT ![t] =
                           [IdleTask EXCEPT !.kind = "generateDocuments", !.id = key,
                                            !.ref = o, !.fmt = fmt, !.aux = first,
                                            !.pc = IF first = 0 THEN "doc_save"
                                                   ELSE "doc_gen"]]
    /\ UNCHANGED <<now, workflows, listeners, researchResults, failures>>
    /\ UNCHANGED brokerVars

\* generateDocuments, lines 423-496: generator g answered: documentation is
\* at 30, 60 or 90; after the last one lines 487-496 follow.  A failure is
\* caught.
GenerateDocumentsGenerated(t, ok) ==
    /\ At(t, "doc_gen")
    /\ MayFail(ok)
    /\ CountFailure(ok)
    /\ IF ok
       THEN LET g == tasks[t].aux
                nxt == NextGenerator(tasks[t].fmt, g)
                u == UpdateStageProgress(objs, savedWf, tasks[t].id,
                                         "documentation", "in_progress", 30 * g)
                v == IF nxt = 0 THEN CompleteDocuments(u, tasks[t].id, tasks[t].ref)
                     ELSE u
            IN  /\ objs' = v.heap
                /\ savedWf' = v.saved
                /\ tasks' = [tasks EXCEPT ![t].aux = nxt, ![t].docs = @ \cup {g},
                                          ![t].pc = IF nxt = 0 THEN "doc_save"
                                                    ELSE "doc_gen"]
       ELSE FailStage(t, "documentation", "document generation failed")
    /\ UNCHANGED <<now, workflows, listeners, researchResults>>
    /\ UNCHANGED <<brokerVars, mcpVars>>

\* generateDocuments, lines 496-510: the awaited write settled.
GenerateDocumentsSaved(t, ok) ==
    /\ At(t, "doc_save")
    /\ MayFail(ok)
    /\ CountFailure(ok)
    /\ IF ok
       THEN /\ tasks' = TaskDone(tasks, t, "ok", "none")
            /\ UNCHANGED <<objs, savedWf>>
       ELSE FailStage(t, "documentation", "redis")
    /\ UNCHANGED <<now, workflows, listeners, researchResults>>
    /\ UNCHANGED <<brokerVars, mcpVars>>

\* generateClarificationQuestions, lines 80-103, and generateFollowUpQuestions,
\* lines 105-131: one generateJSON call is awaited.
QuestionsStart(t, kind, call) ==
    /\ CanStart(t)
    /\ kind \in {"generateClarificationQuestions", "generateFollowUpQuestions"}
    /\ Caller(call, t, Invocation(kind, 0, "none"))
    /\ tasks' = [tasks EXCEPT ![t] = [IdleTask EXCEPT !.kind = kind, !.pc = "questions"]]
    /\ UNCHANGED <<now, objs, workflows, savedWf, listeners, researchResults, failures>>
    /\ UNCHANGED brokerVars

QuestionsFinish(t, ok) ==
    /\ At(t, "questions")
    /\ MayFail(ok)
    /\ CountFailure(ok)
    /\ tasks' = IF ok THEN TaskDone(tasks, t, "ok", "none")
                ELSE TaskDone(tasks, t, "err", "generation failed")
    /\ UNCHANGED <<now, objs, workflows, savedWf, listeners, researchResults>>
    /\ UNCHANGED <<brokerVars, mcpVars>>

\* getDevelopmentStatus, lines 516-519: no workflow or no project id
DevelopmentNotStarted(t, key, call) ==
    /\ CanStart(t)
    /\ Caller(call, t, Invocation("getDevelopmentStatus", key, "none"))
    /\ IF Lookup(key) = NoObj THEN TRUE ELSE ~objs[Lookup(key)].projectId
    /\ tasks' = TaskDone([tasks EXCEPT ![t] = [IdleTask EXCEPT !.kind = "getDevelopmentStatus",
                                                        !.id = key]],
                         t, "err", "Development not started")
    /\ UNCHANGED <<now, objs, workflows, savedWf, listeners, researchResults, failures>>
    /\ UNCHANGED brokerVars

\* getDevelopmentStatus, lines 516-524: the project is asked for its status
GetDevelopmentStatusStart(t, key, call) ==
    /\ CanStart(t)
    /\ Caller(call, t, Invocation("getDevelopmentStatus", key, "none"))
    /\ Lookup(key) # NoObj
    /\ objs[Lookup(key)].projectId
    /\ tasks' = [tasks EXCEPT ![t] =
                    [IdleTask EXCEPT !.kind = "getDevelopmentStatus", !.id = key,
                                     !.ref = Lookup(key), !.pc = "dev_status"]]
    /\ UNCHANGED <<now, objs, workflows, savedWf, listeners, researchResults, failures>>
    /\ UNCHANGED brokerVars

\* getDevelopmentStatus, lines 521-549: a status is returned whether the
\* project answered or not.
GetDevelopmentStatusFinish(t, ok) ==
    /\ At(t, "dev_status")
    /\ MayFail(ok)
    /\ CountFailure(ok)
    /\ tasks' = TaskDone(tasks, t, "ok", "none")
    /\ UNCHANGED <<now, objs, workflows, savedWf, listeners, researchResults>>
    /\ UNCHANGED <<brokerVars, mcpVars>>

\* getWorkflowStatus, lines 553-566: the state is in the map
GetWorkflowStatusInMemory(t, key, call) ==
    /\ CanStart(t)
    /\ Caller(call, t, Invocation("getWorkflowStatus", key, "none"))
    /\ Lookup(key) # NoObj
    /\ tasks' = TaskDone([tasks EXCEPT ![t] =
                             [IdleTask EXCEPT !.kind = "getWorkflowStatus", !.id = key,
                                              !.ref = Lookup(key)]],
                         t, "ok", "none")
    /\ UNCHANGED <<now, objs, workflows, savedWf, listeners, researchResults, failures>>
    /\ UNCHANGED brokerVars

\* getWorkflowStatus, lines 553-557: not in the map, redis is asked.  The
\* connection answers commands in the order they were sent, so the reply
\* carries what is stored now; it is kept as the object JSON.parse will make.
GetWorkflowStatusStart(t, key, call) ==
    /\ CanStart(t)
    /\ Caller(call, t, Invocation("getWorkflowStatus", key, "none"))
    /\ Lookup(key) = NoObj
    /\ objs' = [objs EXCEPT ![invoked + 1] = Stored(key)]
    /\ tasks' = [tasks EXCEPT ![t] =
                    [IdleTask EXCEPT !.kind = "getWorkflowStatus", !.id = key,
                                     !.ref = invoked + 1, !.pc = "status_load"]]
    /\ UNCHANGED <<now, workflows, savedWf, listeners, researchResults, failures>>
    /\ UNCHANGED brokerVars

\* getWorkflowStatus, lines 557-566: a stored state is parsed and put into
\* the map; without one the method throws.
GetWorkflowStatusLoaded(t, ok) ==
    /\ At(t, "status_load")
    /\ MayFail(ok)
    /\ CountFailure(ok)
    /\ LET key == tasks[t].id
           o == tasks[t].ref
       IN  IF ok /\ objs[o].sessionId # 0
           THEN /\ workflows' = [workflows EXCEPT ![key] = o]
                /\ tasks' = TaskDone(tasks, t, "ok", "none")
           ELSE /\ tasks' = TaskDone(tasks, t, "err",
                                     IF ok THEN "Workflow not found" ELSE "redis")
                /\ UNCHANGED workflows
    /\ UNCHANGED <<now, objs, savedWf, listeners, researchResults>>
    /\ UNCHANGED <<brokerVars, mcpVars>>

----------------------------------------------------------------------------
(* MCPHandler (mcp-server/src/index.ts): socket events *)

\* session:create, lines 120-124 and 175-196
CreateSession(s) ==
    /\ Quiescent
    /\ ~sessions[s].exists
    /\ IF s = 1 THEN TRUE ELSE sessions[s - 1].exists
    /\ sessions' = [sessions EXCEPT ![s] =
                       [exists |-> TRUE, id |-> SessionUuid(s),
                        stage |-> "initial", clarifications |-> 0,
                        workflow |-> NoObj]]
    /\ UNCHANGED <<requests, replies, uuidCount, pushes>>
    /\ UNCHANGED <<brokerVars, wfVars>>

\* mcp:request with null: reading message.method throws a TypeError and so
\* does reading message.id in the catch block (lines 102-116).
HandleNull(r) ==
    /\ Quiescent
    /\ NewRequest(r)
    /\ requests' = [requests EXCEPT ![r] = [IdleRequest EXCEPT !.msg = NullMessage,
                                                              !.pc = "done"]]
    /\ replies' = [replies EXCEPT ![r] = Unhandled]
    /\ UNCHANGED <<sessions, uuidCount, pushes>>
    /\ UNCHANGED <<brokerVars, wfVars>>

\* mcp:request with a method that no case of lines 148-172 names (a string
\* has no method at all): mcp:error "Unknown method".
HandleUnknownMethod(r, message) ==
    /\ Quiescent
    /\ NewRequest(r)
    /\ message.shape # "null"
    /\ message.shape = "object" => message.method \notin Methods
    /\ requests' = [requests EXCEPT ![r] = [IdleRequest EXCEPT !.msg = message,
                                                              !.pc = "done"]]
    /\ replies' = [replies EXCEPT ![r] = ErrorEvent(message, "Unknown method")]
    /\ UNCHANGED <<sessions, uuidCount, pushes>>
    /\ UNCHANGED <<brokerVars, wfVars>>

\* startResearch, handleClarification, approveResearch: no such session
\* (lines 200-204, 236-240, 294-298): mcp:error "Session not found".
HandleSessionNotFound(r, message) ==
    /\ Quiescent
    /\ NewRequest(r)
    /\ message.shape = "object"
    /\ message.method \in Methods
    /\ NeedsSession(message)
    /\ SessionOf(message.sessionId) = 0
    /\ requests' = [requests EXCEPT ![r] =
                       [IdleRequest EXCEPT !.msg = message, !.pc = "done",
                                           !.handler = message.method]]
    /\ replies' = [replies EXCEPT ![r] = ErrorEvent(message, "Session not found")]
    /\ UNCHANGED <<sessions, uuidCount, pushes>>
    /\ UNCHANGED <<brokerVars, wfVars>>

\* this.io.to(room).emit(event, payload), lines 214 and 276
Push(room, event, payload) == [room |-> room, event |-> event, payload |-> payload]

\* The awaited operation of a handler settled: the handler returns its
\* response (mcp:response, lines 103-106) or the socket handler reports what
\* was thrown (mcp:error, lines 107-116).  startResearch sets the session's
\* stage before it returns (line 210).
HandlerResume(r) ==
    /\ Resumable(r)
    /\ ~PlanReturned(r)
    /\ LET t == requests[r].task
           message == requests[r].msg
           s == SessionOf(message.sessionId)
       IN  IF tasks[t].outcome = "err"
           THEN /\ replies' = [replies EXCEPT ![r] = ErrorEvent(message, tasks[t].error)]
                /\ UNCHANGED <<sessions, uuidCount, pushes>>
           ELSE /\ replies' = [replies EXCEPT ![r] =
                                  HandlerResponse(ResponseUuid(uuidCount + 1), message,
                                                  tasks[t].kind)]
                /\ uuidCount' = uuidCount + 1
                /\ sessions' = IF message.method = "research.start"
                               THEN [sessions EXCEPT ![s].stage = "clarification"]
                               ELSE sessions
                /\ pushes' = IF message.method = "research.start"
                             THEN pushes \cup {Push(message.sessionId, "research:progress",
                                                     <<"clarification">>)}
                             ELSE pushes
    /\ requests' = [requests EXCEPT ![r].pc = "done"]
    /\ UNCHANGED <<brokerVars, wfVars>>

\* The session ids a client may name: those uuidv4() gives to sessions and
\* the session_<ms> ids of the workflows.
ClientSessionIds == WfKeys \cup {SessionUuid(s) : s \in SessionSlots}

\* The messages a client sends as request r: well-formed envelopes for every
\* method and for one no case names, envelopes without id, of an unknown
\* type or without method, and a string.  research.approve comes as an
\* approval, as a rejection with feedback and as a rejection without.
Inbound(r) ==
    {Envelope(r, "request", m, sid) :
        m \in {"research.start", "development.start", "testing.run",
               "workflow.status", "unknown.method"},
        sid \in ClientSessionIds}
    \cup {Envelope(0, "request", "research.start", sid) : sid \in ClientSessionIds}
    \cup {Envelope(r, "bogus", "research.start", sid) : sid \in ClientSessionIds}
    \cup {Envelope(r, "request", "", sid) : sid \in WfKeys}
    \cup {[Envelope(r, "request", "research.clarify", sid) EXCEPT !.answers = a] :
            a \in {1, 2}, sid \in ClientSessionIds}
    \cup {[Envelope(r, "request", "research.approve", sid)
              EXCEPT !.approved = d[1], !.feedback = d[2]] :
            d \in {<<TRUE, FALSE>>, <<FALSE, TRUE>>, <<FALSE, FALSE>>},
            sid \in ClientSessionIds}
    \cup {[Envelope(r, "request", "documentation.generate", sid) EXCEPT !.format = f] :
            f \in Formats, sid \in WfKeys}
    \cup {StringMessage}

\* The process is restarted: the workflows map (line 57), the operations in
\* flight and the sessions of MCPHandler are gone, while what redis holds
\* and the clock are kept.  A restart that would lose nothing is not a step.
Restart ==
    /\ \/ \E k \in WfKeys : workflows[k] # NoObj
       \/ \E t \in TaskIds : tasks[t].pc # "idle"
    /\ objs' = [o \in ObjIds |-> NoWorkflowState]
    /\ workflows' = [k \in WfKeys |-> NoObj]
    /\ listeners' = [k \in WfKeys |-> 0]
    /\ tasks' = [t \in TaskIds |-> IdleTask]
    /\ sessions' = [s \in SessionSlots |-> NoSession]
    /\ requests' = [r \in ReqIds |-> IdleRequest]
    /\ UNCHANGED <<now, savedWf, researchResults, failures, invoked>>
    /\ UNCHANGED <<replies, uuidCount, pushes>>
    /\ UNCHANGED brokerVars

----------------------------------------------------------------------------
(* Specifications *)

\* the steps of the operations of WorkflowManager
WfStep ==
    \E t \in TaskIds, ok \in BOOLEAN :
        \/ CreateResearchPlanSaved(t, ok)
        \/ CreateResearchPlanPlanned(t, ok)
        \/ CrawlSource(t, ok)
        \/ RankPapers(t, ok)
        \/ ExecuteResearchFinish(t, ok)
        \/ RefineResearchFinish(t, ok)
        \/ StartDevelopmentResults(t, ok)
        \/ StartDevelopmentProject(t, ok)
        \/ StartDevelopmentGenerated(t, ok)
        \/ \E run \in {"passed", "failed", "error"} : StartDevelopmentTested(t, run)
        \/ StartDevelopmentSaved(t, ok)
        \/ \E failed \in {0, 1} : RunTestsRan(t, ok, failed)
        \/ RunTestsSaved(t, ok)
        \/ GenerateDocumentsGenerated(t, ok)
        \/ GenerateDocumentsSaved(t, ok)
        \/ GetDevelopmentStatusFinish(t, ok)

\* The workflow operations of WorkflowManager called with any session id.
WfInvoke ==
    \E t \in TaskIds :
        \/ \E ms \in WfKeys : CreateResearchPlanStart(t, ms, DirectCall)
        \/ \E key \in WfKeys :
              \/ \E kind \in {"executeResearch", "refineResearch", "startDevelopment",
                              "runTests", "generateDocuments"} :
                    WorkflowNotFound(t, kind, key, DirectCall)
              \/ ExecuteResearchStart(t, key, DirectCall)
              \/ RefineResearchStart(t, key, DirectCall)
              \/ StartDevelopmentStart(t, key, DirectCall)
              \/ RunTestsNoProject(t, key, DirectCall)
              \/ RunTestsStart(t, key, DirectCall)
              \/ \E fmt \in Formats : GenerateDocumentsStart(t, key, fmt, DirectCall)
              \/ GetDevelopmentStatusStart(t, key, DirectCall)

WfNext == WfInvoke \/ WfStep

\* Sessions are created, the process restarts, and the operations are called
\* with the session ids again.
RecoveryNext ==
    \/ Restart
    \/ \E t \in TaskIds :
          \/ \E ms \in WfKeys : CreateResearchPlanStart(t, ms, DirectCall)
          \/ \E ok \in BOOLEAN :
                \/ CreateResearchPlanSaved(t, ok)
                \/ CreateResearchPlanPlanned(t, ok)
                \/ GetWorkflowStatusLoaded(t, ok)
          \/ \E key \in WfKeys :
                \/ \E kind \in {"executeResearch", "refineResearch", "startDevelopment",
                                "runTests", "generateDocuments"} :
                      WorkflowNotFound(t, kind, key, DirectCall)
                \/ GetWorkflowStatusInMemory(t, key, DirectCall)
                \/ GetWorkflowStatusStart(t, key, DirectCall)

\* A client's mcp:request is received and handled up to the handler's first
\* await.  A session id of MCPHandler is never a key of the workflows map,
\* so the operations that need both a live session and a workflow only ever
\* throw here.
McpReceive ==
    \E r \in ReqIds :
        \/ HandleNull(r)
        \/ \E message \in Inbound(r) :
              \/ HandleUnknownMethod(r, message)
              \/ HandleSessionNotFound(r, message)
              \/ \E t \in TaskIds :
                    \/ QuestionsStart(t, "generateClarificationQuestions",
                                      Dispatched(r, message))
                    \/ QuestionsStart(t, "generateFollowUpQuestions",
                                      Dispatched(r, message))
                    \/ \E ms \in WfKeys :
                          CreateResearchPlanStart(t, ms, Dispatched(r, message))
                    \/ \E kind \in {"refineResearch", "startDevelopment", "runTests",
                                    "generateDocuments"} :
                          WorkflowNotFound(t, kind, message.sessionId,
                                           Dispatched(r, message))
                    \/ RunTestsNoProject(t, message.sessionId, Dispatched(r, message))
                    \/ GenerateDocumentsStart(t, message.sessionId, message.format,
                                              Dispatched(r, message))
                    \/ DevelopmentNotStarted(t, message.sessionId, Dispatched(r, message))
                    \/ GetWorkflowStatusInMemory(t, message.sessionId,
                                                 Dispatched(r, message))
                    \/ GetWorkflowStatusStart(t, message.sessionId,
                                              Dispatched(r, message))

\* A handler continues after its awaited operation settled.
McpResume ==
    \E r \in ReqIds :
        \/ HandlerResume(r)
        \/ \E t \in TaskIds :
              WorkflowNotFound(t, "executeResearch", requests[r].msg.sessionId,
                               Continued(r))

\* The awaited calls of the operations started by handlers settle.
McpStep ==
    \E t \in TaskIds, ok \in BOOLEAN :
        \/ QuestionsFinish(t, ok)
        \/ CreateResearchPlanSaved(t, ok)
        \/ CreateResearchPlanPlanned(t, ok)
        \/ GenerateDocumentsGenerated(t, ok)
        \/ GenerateDocumentsSaved(t, ok)
        \/ GetWorkflowStatusLoaded(t, ok)

ServerNext ==
    \/ \E s \in SessionSlots : CreateSession(s)
    \/ McpReceive
    \/ McpResume
    \/ McpStep

\* index.ts, lines 62-68: cacheEnabled true, maxRetries not configured
BrokerAsDeployed == BrokerInit /\ cfgCacheEnabled /\ cfgMaxRetries = 0

IdleJson == [pc |-> "idle", generates |-> 0, outcome |-> "none"]

NoBatch ==
    [pc |-> "idle", requests |-> <<>>, issued |-> 0, results |-> <<>>, outcome |-> "none"]

NoStream ==
    [pc |-> "idle", promise |-> "none", fullResponse |-> <<>>, passed |-> <<>>,
     value |-> <<>>, events |-> 0]

\* initializeModel has finished and none of generateJSON and batchGenerate
\* has been called
ServiceIdle ==
    /\ modelLoaded = TRUE
    /\ initPc = [at |-> "done", call |-> NoOp, pulled |-> FALSE]
    /\ jsonCalls = [c \in CallIds |-> IdleJson]
    /\ batch = NoBatch
    /\ stream = NoStream
    /\ atClear = [f \in Fps |-> NoVal]

NoCheck ==
    [called |-> FALSE, by |-> "none", msg |-> Candidate("null", 0, "", ""), verdict |-> FALSE]

\* MCPProtocol has not been used
ProtoIdle ==
    /\ made = <<>>
    /\ checked = NoCheck

\* the keys session:<id> that may exist in the durable store
SessionKeys == 1..MaxEntries

\* What redis holds under a key session:<id>: nothing (never written, or
\* expired after the 24 h of line 191), the JSON text createSession wrote
\* (lines 188-193), or a value JSON.parse does not accept.
Entries == {"absent", "session", "corrupt"}

NoListing ==
    [pc |-> "idle", keys |-> {}, got |-> [k \in SessionKeys |-> "none"],
     body |-> {}]

\* no session entry is stored and no listing was asked for
RestIdle ==
    /\ sessionStore = [k \in SessionKeys |-> "absent"]
    /\ listing = NoListing

\* the server is started against a store that holds any entries
RestInit ==
    /\ sessionStore \in [SessionKeys -> Entries]
    /\ listing = NoListing

RestFrame == UNCHANGED <<ollamaVars, modelLoaded, initPc, jsonCalls, batch, stream,
                         atClear, wfVars, mcpVars, protoVars>>

\* createSession, lines 188-193: redis.set(session:<id>, JSON.stringify(session))
\* under a fresh uuid
SessionSaved(k) ==
    /\ sessionStore[k] = "absent"
    /\ sessionStore' = [sessionStore EXCEPT ![k] = "session"]
    /\ UNCHANGED listing
    /\ RestFrame

\* the expiry of an entry
SessionExpired(k) ==
    /\ sessionStore[k] # "absent"
    /\ sessionStore' = [sessionStore EXCEPT ![k] = "absent"]
    /\ UNCHANGED listing
    /\ RestFrame

\* GET /sessions, line 410: redis.keys("session:*") is sent
ListSessions ==
    /\ listing.pc \in {"idle", "done", "failed"}
    /\ listing' = [NoListing EXCEPT !.pc = "keys"]
    /\ UNCHANGED sessionStore
    /\ RestFrame

\* data ? JSON.parse(data) : null, line 414, for what redis.get returned
ParseEntry(entry) ==
    IF entry = "absent" THEN "null"
    ELSE IF entry = "session" THEN "session"
    ELSE "threw"

\* sessions.filter(session => session !== null), line 417
Listed(l) == {k \in l.keys : l.got[k] = "session"}

\* lines 410-417: the keys arrived and one redis.get per key is sent; with
\* no key Promise.all resolves to [] and the empty list is the response.
ListSessionsKeys ==
    /\ listing.pc = "keys"
    /\ LET keys == {k \in SessionKeys : sessionStore[k] # "absent"}
       IN  listing' = [listing EXCEPT
                          !.keys = keys,
                          !.got = [k \in SessionKeys |->
                                     IF k \in keys THEN "pending" ELSE "none"],
                          !.pc = IF keys = {} THEN "done" ELSE "reads"]
    /\ UNCHANGED sessionStore
    /\ RestFrame

\* lines 412-417: the redis.get of the next key was answered.  A callback
\* that throws rejects Promise.all and with it the handler, which sends no
\* response; after the last callback returned, the entries that are not
\* null are the response.
ListSessionsRead ==
    /\ listing.pc = "reads"
    /\ LET pending == {k \in listing.keys : listing.got[k] = "pending"}
           k == CHOOSE x \in pending : \A y \in pending : x <= y
           l == [listing EXCEPT !.got[k] = ParseEntry(sessionStore[k])]
       IN  listing' = IF l.got[k] = "threw"
                      THEN [l EXCEPT !.pc = "failed"]
                      ELSE IF pending = {k}
                      THEN [l EXCEPT !.pc = "done", !.body = Listed(l)]
                      ELSE l
    /\ UNCHANGED sessionStore
    /\ RestFrame

RestNext ==
    \/ \E k \in SessionKeys : SessionSaved(k)
    \/ \E k \in SessionKeys : SessionExpired(k)
    \/ ListSessions
    \/ ListSessionsKeys
    \/ ListSessionsRead

InitBroker == BrokerInit /\ ServiceIdle /\ ProtoIdle /\ WfInit /\ McpInit /\ RestIdle
InitWorkflow == BrokerAsDeployed /\ ServiceIdle /\ ProtoIdle /\ WfInit /\ McpInit /\ RestIdle
InitServer == BrokerAsDeployed /\ ServiceIdle /\ ProtoIdle /\ WfInit /\ McpInit /\ RestIdle
InitRecovery == BrokerAsDeployed /\ ServiceIdle /\ ProtoIdle /\ WfInit /\ McpInit /\ RestIdle

\* The constructor has run (lines 53-65): GET /api/tags is in flight.  Redis
\* may hold the warm-up answer a process that ran before has cached.
ServiceInit ==
    /\ cfgCacheEnabled \in BOOLEAN
    /\ cfgMaxRetries \in 0..MaxCfgRetries
    /\ calls = [c \in CallIds |-> IdleCall]
    /\ ops = [c \in CallIds |-> NoOperation]
    /\ activeRequests = [f \in Fps |-> NoOp]
    /\ redisQueue = <<>>
    /\ redisStore \in {[f \in Fps |-> IF f = WarmUpFp THEN v ELSE NoVal] :
                            v \in {NoVal, ResponseJson(EarlierOp)}}
    /\ cachedSince = [f \in Fps |-> FALSE]
    /\ clearPc = "idle"
    /\ clears = 0
    /\ expiries = 0
    /\ modelLoaded = FALSE
    /\ initPc = [at |-> "tags", call |-> NoOp, pulled |-> FALSE]
    /\ jsonCalls = [c \in CallIds |-> IdleJson]
    /\ batch = NoBatch
    /\ stream = NoStream
    /\ atClear = [f \in Fps |-> NoVal]

InitService == ServiceInit /\ ProtoIdle /\ WfInit /\ McpInit /\ RestIdle

\* The service has started; batchGenerate has not been called.
BatchInit ==
    /\ cfgCacheEnabled \in BOOLEAN
    /\ cfgMaxRetries \in 0..MaxCfgRetries
    /\ calls = [c \in BatchCallIds |-> IdleCall]
    /\ ops = [c \in BatchCallIds |-> NoOperation]
    /\ activeRequests = [f \in Fps |-> NoOp]
    /\ redisQueue = <<>>
    /\ redisStore = [f \in Fps |-> NoVal]
    /\ cachedSince = [f \in Fps |-> FALSE]
    /\ clearPc = "idle"
    /\ clears = 0
    /\ expiries = 0

InitBatch == BatchInit /\ ServiceIdle /\ ProtoIdle /\ WfInit /\ McpInit /\ RestIdle

\* The service has started; streamGenerate has not been called.
InitListing == BrokerAsDeployed /\ ServiceIdle /\ ProtoIdle /\ WfInit /\ McpInit /\ RestInit
SpecListing == InitListing /\ [][RestNext]_vars

InitStream == BrokerAsDeployed /\ ServiceIdle /\ ProtoIdle /\ WfInit /\ McpInit /\ RestIdle

\* MCPProtocol has no state: nothing was created, validate was not called
InitProtocol == BrokerAsDeployed /\ ServiceIdle /\ ProtoIdle /\ WfInit /\ McpInit /\ RestIdle

SpecBroker == InitBroker /\ [][BrokerNext]_vars
SpecWorkflow == InitWorkflow /\ [][WfNext]_vars
SpecServer == InitServer /\ [][ServerNext]_vars
SpecRecovery == InitRecovery /\ [][RecoveryNext]_vars
SpecService == InitService /\ [][ServiceNext]_vars
SpecProtocol == InitProtocol /\ [][ProtocolNext]_vars
SpecBatch == InitBatch /\ [][BatchNext]_vars
\* Every event of a stream that has one left is delivered in the end.
SpecStream == InitStream /\ [][StreamNext]_vars /\ WF_vars(StreamNext)

----------------------------------------------------------------------------
\* getStats().activeRequests: this.activeRequests.size
ActiveRequestCount == Cardinality({f \in Fps : activeRequests[f] # NoOp})

----------------------------------------------------------------------------
(* Claims about the generation broker, checked under SpecBroker *)

\* C1: a generate call that is made while a call with the same fingerprint is
\* in flight (the fingerprint has an entry in the in-flight map when the call
\* is made) never starts a backend operation of its own.
C1_NoOwnCallWhileInFlight ==
    \A c \in CallIds : calls[c].sawInflight => ~calls[c].registered

\* C2: all finished callers of one shared backend operation have the same
\* outcome: all of them succeed with the identical payload, or all of them
\* fail.
C2_SharedOutcome ==
    \A c, d \in CallIds :
        (/\ calls[c].pc = "done" /\ calls[d].pc = "done"
         /\ calls[c].op # NoOp /\ calls[c].op = calls[d].op)
        => /\ (calls[c].result.kind = "ok") <=> (calls[d].result.kind = "ok")
           /\ calls[c].result.kind = "ok"
                  => calls[c].result.payload = calls[d].result.payload

\* C3: on a broker with the cache enabled, a useCache=true call made after a
\* useCache=true call with the same fingerprint returned successfully, with
\* no expiry or clearing of the cache since, starts no backend operation.
C3_NoBackendCallAfterCachedSuccess ==
    \A c \in CallIds :
        (cfgCacheEnabled /\ calls[c].afterSuccess) => ~calls[c].registered

\* C4: with n the configured maximum (3 when not configured) one generation
\* issues at most n backend calls; a generation that succeeded did so after
\* fewer than n failures, returns the response of its last call and issues no
\* further call; a generation that failed made exactly n calls, and its error
\* names n and carries the message of the n-th attempt's error.
C4_RetryBound ==
    LET n == IF cfgMaxRetries = 0 THEN 3 ELSE cfgMaxRetries
    IN  \A o \in CallIds :
            /\ ops[o].posts <= n
            /\ ops[o].state = "resolved"
                   => /\ ops[o].fails < n
                      /\ ops[o].posts = ops[o].fails + 1
                      /\ ops[o].result.kind = "ok"
                      /\ ops[o].result.payload = o
            /\ ops[o].state = "rejected"
                   => /\ ops[o].posts = n
                      /\ ops[o].fails = n
                      /\ ops[o].result.kind = "generation"
                      /\ ops[o].result.attempts = n
                      /\ ops[o].result.msg = n

\* C4 witness: under the default of 3 attempts, one generation has failed
\* after its third attempt and another has succeeded after earlier failures.
C4_Witness ==
    /\ cfgMaxRetries = 0
    /\ \E o \in CallIds : ops[o].state = "rejected" /\ ops[o].fails = 3
    /\ \E o \in CallIds : ops[o].state = "resolved" /\ ops[o].fails > 0

\* C5: an in-flight entry belongs to a generate call that registered it and
\* has not finished yet; when no generate call is pending the in-flight map
\* is empty (getStats().activeRequests = 0).
C5_InFlightEntryHasPendingOwner ==
    /\ \A f \in Fps :
           activeRequests[f] # NoOp
           => /\ calls[activeRequests[f]].registered
              /\ calls[activeRequests[f]].fp = f
              /\ calls[activeRequests[f]].pc \in {"awaitBackend", "awaitSet"}
    /\ (\A c \in CallIds : ~Pending(c)) => ActiveRequestCount = 0

\* C5 witness: generate calls that registered an operation have finished on
\* each path (success, retries exhausted, cache write failed), none is
\* pending and the in-flight map is empty.
C5_Witness ==
    /\ \E c \in CallIds : calls[c].registered /\ calls[c].pc = "done"
                           /\ calls[c].result.kind = "redis"
    /\ \E c \in CallIds : calls[c].registered /\ calls[c].pc = "done"
                           /\ calls[c].result.kind = "generation"
    /\ \E c \in CallIds : calls[c].registered /\ calls[c].pc = "done"
                           /\ calls[c].result.kind = "ok"
    /\ \A c \in CallIds : ~Pending(c)
    /\ ActiveRequestCount = 0

----------------------------------------------------------------------------
(* Properties of MCPHandler, checked under SpecServer *)

\* C6: every mcp:response emitted for a request carries the id of the
\* request it answers.
C6_ResponseIdEqualsRequestId ==
    \A r \in ReqIds :
        replies[r].event = "mcp:response" => replies[r].id = requests[r].msg.id

\* C7: an envelope that fails validate is answered with the invalid-request
\* code and no method handler runs for it.
C7_InvalidEnvelopeNotDispatched ==
    \A r \in ReqIds :
        (requests[r].pc # "idle" /\ ~Validate(requests[r].msg))
            => /\ requests[r].handler = "none"
               /\ requests[r].pc = "done" => replies[r].code = INVALID_REQUEST

----------------------------------------------------------------------------
(* Properties of WorkflowManager, checked under SpecWorkflow *)

\* the WorkflowState objects that exist
LiveObjs == {o \in ObjIds : objs[o].sessionId # 0}

\* C8: currentStage of a WorkflowState never moves to an earlier stage of the
\* enumeration, except back to research.
C8_CurrentStageNeverMovesBack ==
    [][\A o \in LiveObjs :
          \/ StageIndex(objs'[o].currentStage) >= StageIndex(objs[o].currentStage)
          \/ objs'[o].currentStage = "research"]_vars

\* C9: a stage that is in_progress before and after a step has not lost
\* progress in that step.
C9_ProgressMonotoneWhileInProgress ==
    [][\A o \in LiveObjs : \A st \in Stages :
          (objs[o].stages[st].status = "in_progress"
             /\ objs'[o].stages[st].status = "in_progress")
          => objs'[o].stages[st].progress >= objs[o].stages[st].progress]_vars

\* C10: a stage that is completed or failed keeps its status and progress in
\* every later step, except research when refineResearch reopens it.
C10_FinalStageFrozen ==
    [][\A o \in LiveObjs : \A st \in Stages :
          objs[o].stages[st].status \in {"completed", "failed"}
          => \/ /\ objs'[o].stages[st].status = objs[o].stages[st].status
                /\ objs'[o].stages[st].progress = objs[o].stages[st].progress
             \/ /\ st = "research"
                /\ objs'[o].stages[st] =
                      [objs[o].stages[st] EXCEPT !.status = "in_progress",
                                                 !.progress = 50]
                /\ \E t \in TaskIds : /\ tasks[t].pc \in {"idle", "done"}
                                      /\ tasks'[t].kind = "refineResearch"
                                      /\ tasks'[t].pc = "refine"]_vars

\* C11: once research.clarify was received for a session that is in the
\* research stage, a workflow.status request naming that session's id is
\* answered with mcp:response (no collaborator having failed).
C11_StatusOfResearchSessionSucceeds ==
    \A r \in ReqIds : \A s \in SessionSlots :
        (/\ failures = 0
         /\ requests[r].pc = "done"
         /\ requests[r].msg.method = "workflow.status"
         /\ sessions[s].exists
         /\ requests[r].msg.sessionId = sessions[s].id
         /\ sessions[s].stage = "research"
         /\ \E q \in ReqIds : /\ q < r
                              /\ requests[q].pc = "done"
                              /\ requests[q].msg.method = "research.clarify"
                              /\ requests[q].msg.sessionId = sessions[s].id)
        => replies[r].event = "mcp:response"

\* C12: the research execution that research.clarify leaves running in the
\* background, once it has finished with no backend, crawler or redis call
\* having failed, has completed (it returned its results, after which the
\* research stage is completed and research:completed is emitted).
C12_BackgroundResearchCompletes ==
    \A t \in TaskIds :
        (/\ failures = 0
         /\ tasks[t].kind = "executeResearch"
         /\ tasks[t].pc = "done")
        => tasks[t].outcome = "ok"

\* C13: two WorkflowStates created by different createResearchPlan calls
\* never share a sessionId.
C13_SessionIdNeverReused ==
    \A o, p \in LiveObjs :
        o # p => objs[o].sessionId # objs[p].sessionId

\* the sessions whose first write by createResearchPlan has not settled yet
WritePending == {tasks[t].id : t \in {u \in TaskIds : tasks[u].pc = "crp_save"}}

\* C14: whenever no issued write of a WorkflowState is outstanding (and no
\* write has failed), the durable copy under workflow:<sessionId> equals the
\* WorkflowState that the workflow map holds for that sessionId.
C14_DurableCopyEqualsMemory ==
    \A k \in WfKeys :
        (failures = 0 /\ Lookup(k) # NoObj /\ k \notin WritePending)
        => savedWf[k] = objs[Lookup(k)]

\* the entries of stage st in the errors list of a WorkflowState
ErrorsOf(state, st) ==
    LET errs == state.errors
        RECURSIVE Pick(_)
        Pick(i) == IF i > Len(errs) THEN <<>>
                   ELSE IF errs[i].stage = st THEN <<errs[i]>> \o Pick(i + 1)
                   ELSE Pick(i + 1)
    IN  Pick(1)

\* C16: the errors list of a WorkflowState holds at most one entry per
\* stage; a step that records a failure of a stage either creates the
\* stage's entry with retryCount 0 or adds one to the retryCount of the
\* existing entry, replaces its message, and leaves the stage failed.
C16_OneErrorEntryPerStage ==
    [][\A o \in ObjIds : \A st \in Stages :
          LET before == ErrorsOf(objs[o], st)
              after == ErrorsOf(objs'[o], st)
          IN  /\ Len(after) <= 1
              /\ after # before =>
                    /\ Len(after) = 1
                    /\ after[1].retryCount =
                          IF before = <<>> THEN 0 ELSE before[1].retryCount + 1
                    /\ \E t \in TaskIds : /\ tasks'[t] # tasks[t]
                                          /\ tasks'[t].outcome = "err"
                                          /\ tasks'[t].error = after[1].error
                    /\ objs'[o].stages[st].status = "failed"]_vars

\* a stage has failed twice and its one entry counts one retry
C16_Witness ==
    \E o \in LiveObjs : \E st \in Stages :
        /\ Len(ErrorsOf(objs[o], st)) = 1
        /\ ErrorsOf(objs[o], st)[1].retryCount = 1

----------------------------------------------------------------------------
(* Properties of WorkflowManager across a restart, checked under SpecRecovery *)

\* C15: an operation reports "Workflow not found" only when redis holds no
\* state under the session id either: for getWorkflowStatus the reply to its
\* GET carried nothing, for the other operations nothing is stored when they
\* throw.
C15_NotFoundOnlyWhenBothLookupsMiss ==
    [][\A t \in TaskIds :
          (/\ tasks'[t] # tasks[t]
           /\ tasks'[t].pc = "done"
           /\ tasks'[t].error = "Workflow not found")
          => IF tasks[t].pc = "status_load"
             THEN objs[tasks[t].ref].sessionId = 0
             ELSE Stored(tasks'[t].id).sessionId = 0]_vars

----------------------------------------------------------------------------
(* Properties of the method handlers of MCPHandler, checked under SpecServer *)

\* C17: when research.clarify is dispatched the submitted answers are added
\* to the session's clarifications; with fewer than 2 accumulated the stage
\* stays and follow-up questions are asked for, with 2 or more the session
\* moves to research and a research plan is asked for.  The response then
\* carries needsMoreClarification in the first case and the plan with stage
\* research in the second.
C17_ClarifyAccumulatesAndBranches ==
    [][\A r \in ReqIds :
          LET message == requests'[r].msg
              s == SessionOf(message.sessionId)
              count == sessions[s].clarifications + message.answers
          IN  /\ (/\ requests[r].pc = "idle"
                  /\ requests'[r].pc = "awaitTask"
                  /\ message.method = "research.clarify")
                 => /\ sessions'[s].clarifications = count
                    /\ IF count < 2
                       THEN /\ sessions'[s].stage = sessions[s].stage
                            /\ tasks'[requests'[r].task].kind = "generateFollowUpQuestions"
                       ELSE /\ sessions'[s].stage = "research"
                            /\ tasks'[requests'[r].task].kind = "createResearchPlan"
              /\ (/\ requests[r].pc = "awaitTask"
                  /\ requests'[r].pc = "done"
                  /\ message.method = "research.clarify"
                  /\ replies'[r].event = "mcp:response")
                 => /\ sessions' = sessions
                    /\ replies'[r].result =
                          IF tasks[requests[r].task].kind = "generateFollowUpQuestions"
                          THEN "needsMoreClarification" ELSE "researchPlan"]_vars

\* one answer was answered with needsMoreClarification, the second answer of
\* the same session with the research plan, and the session is in research
C17_Witness ==
    \E r, q \in ReqIds : \E s \in SessionSlots :
        /\ sessions[s].exists
        /\ sessions[s].stage = "research"
        /\ sessions[s].clarifications = 2
        /\ requests[r].msg.method = "research.clarify"
        /\ requests[q].msg.method = "research.clarify"
        /\ requests[r].msg.sessionId = sessions[s].id
        /\ requests[q].msg.sessionId = sessions[s].id
        /\ replies[r].result = "needsMoreClarification"
        /\ replies[q].result = "researchPlan"

\* C18: a research.approve whose approved is not true leaves the session's
\* stage as it is and runs refineResearch, never startDevelopment.
C18_DevelopmentOnlyOnApproval ==
    [][\A r \in ReqIds :
          (/\ requests[r].pc = "idle"
           /\ requests'[r].pc = "awaitTask"
           /\ requests'[r].msg.method = "research.approve"
           /\ ~requests'[r].msg.approved)
          => /\ sessions' = sessions
             /\ tasks'[requests'[r].task].kind = "refineResearch"]_vars

\* C19: whenever no request is being processed (and no backend or redis
\* call has failed), the stage of a session for which a WorkflowState was
\* created equals that state's currentStage.
C19_SessionStageMirrorsWorkflow ==
    \A s \in SessionSlots :
        (/\ failures = 0
         /\ sessions[s].exists
         /\ sessions[s].workflow # NoObj
         /\ \A r \in ReqIds : requests[r].pc \in {"idle", "done"})
        => sessions[s].stage = objs[sessions[s].workflow].currentStage

\* C20: every request whose handling did not end in an mcp:response got an
\* mcp:error that carries the request's id and a message.
C20_FailedRequestGetsErrorReply ==
    \A r \in ReqIds :
        (requests[r].pc = "done" /\ replies[r].event # "mcp:response")
        => /\ replies[r].event = "mcp:error"
           /\ replies[r].id = requests[r].msg.id
           /\ replies[r].error # "none"

\* C36: a request that fails leaves the sessions as they were before it:
\* when the operation a handler calls throws at once (the handler has no
\* catch, so the request ends in an mcp:error), the handler has changed the
\* stage of no session.
C36_FailedRequestLeavesSessionStage ==
    [][\A r \in ReqIds :
          (/\ requests[r].pc = "idle"
           /\ requests'[r].pc = "awaitTask"
           /\ tasks'[requests'[r].task].pc = "done"
           /\ tasks'[requests'[r].task].outcome = "err")
          => \A s \in SessionSlots : sessions'[s].stage = sessions[s].stage]_vars

\* C31: every stage-progress mutation of a session's workflow is delivered
\* to the subscribers of that session: a step that changes the status or
\* the progress of a stage of a WorkflowState has sent, to the room of the
\* state's session, a workflow:progress notification carrying the stage,
\* its new status and its new progress.
C31_ProgressNotificationDelivered ==
    [][\A o \in ObjIds, st \in Stages :
          (\/ objs'[o].stages[st].status # objs[o].stages[st].status
           \/ objs'[o].stages[st].progress # objs[o].stages[st].progress)
          => Push(objs'[o].sessionId, "workflow:progress",
                  <<st, objs'[o].stages[st].status, objs'[o].stages[st].progress>>)
                \in pushes']_vars

----------------------------------------------------------------------------
(* Further properties of OllamaService.generate, checked under SpecBroker *)

\* a call that does not use the cache: useCache false, or cacheEnabled false
Uncached(c) == calls[c].pc # "idle" /\ ~(cfgCacheEnabled /\ calls[c].useCache)

\* C21: a generate call that does not use the cache sends no command to
\* redis; what it returns is the outcome of the performGeneration it
\* registered or joined, never a cache entry; when it fails, it fails with
\* the generation error after all attempts were made.  Whatever the cache
\* holds was written by a call that uses the cache.
C21_UncachedCallBypassesCache ==
    /\ \A c \in CallIds :
          Uncached(c) =>
             /\ calls[c].pc \notin {"awaitGet", "awaitSet"}
             /\ \A i \in 1..Len(redisQueue) : redisQueue[i].who # c
             /\ calls[c].pc = "done" =>
                   /\ calls[c].op # NoOp
                   /\ calls[c].result = ops[calls[c].op].result
                   /\ calls[c].result.kind \in {"ok", "generation"}
                   /\ calls[c].result.kind = "generation" =>
                         ops[calls[c].op].posts = MaxRetriesOf(cfgMaxRetries)
    /\ \A f \in Fps :
          redisStore[f] # NoVal => cfgCacheEnabled /\ calls[OpOf(redisStore[f])].useCache

\* a call with useCache false failed after the retries although the cache
\* holds an entry for its fingerprint
C21_Witness ==
    \E c \in CallIds :
        /\ cfgCacheEnabled
        /\ ~calls[c].useCache
        /\ calls[c].pc = "done"
        /\ calls[c].result.kind = "generation"
        /\ redisStore[calls[c].fp] # NoVal

----------------------------------------------------------------------------
(* OllamaService from its construction on, checked under SpecService *)

\* C22: a 2xx answer of the backend that lacks the message is never what a
\* generate call returns and never what the cache comes to hold.
C22_OddResponseNeverReturnedNorCached ==
    /\ \A c \in CallIds :
          (calls[c].pc = "done" /\ calls[c].result.kind = "ok") =>
              HasMessage(calls[c].result.payload)
    /\ \A f \in Fps : redisStore[f] # NoVal => HasMessage(redisStore[f])

\* C29: an invocation of generateJSON makes one generate call.  When the text
\* it got is not JSON it fails with the parse error, which is not the error
\* of a generation that used up its attempts, and the generation it got the
\* text from is over: no POST follows.
C29_ParseErrorIsTerminalAndDistinct ==
    \A c \in CallIds :
       jsonCalls[c].pc # "idle" =>
          /\ jsonCalls[c].generates = 1
          /\ jsonCalls[c].pc = "done" =>
                /\ jsonCalls[c].outcome = GenerationError <=>
                      calls[c].result.kind = "generation"
                /\ jsonCalls[c].outcome = ParseError <=>
                      /\ calls[c].result.kind = "ok"
                      /\ HasMessage(calls[c].result.payload)
                      /\ ~IsJson(calls[c].result.payload)
                /\ jsonCalls[c].outcome = ParseError =>
                      /\ ParseError # GenerationError
                      /\ calls[c].op # NoOp => ops[calls[c].op].state = "resolved"

C29_Witness ==
    \E c \in CallIds :
       /\ jsonCalls[c].pc = "done"
       /\ jsonCalls[c].outcome = ParseError
       /\ calls[c].op # NoOp
       /\ ops[calls[c].op].posts = 1

\* C30: modelLoaded is true only when the warm-up generation of start-up was
\* sent to the backend and answered.
C30_ReadyOnlyAfterWarmUpAtBackend ==
    modelLoaded =>
       /\ initPc.at = "done"
       /\ calls[initPc.call].op # NoOp
       /\ ops[calls[initPc.call].op].posts >= 1

\* C40: a generateJSON call never fails with the parse error on a text it
\* got from the cache: the generate call behind a parse error went to the
\* backend (its own generation or one in flight).
C40_ParseFailureNotServedFromCache ==
    \A c \in CallIds :
       (jsonCalls[c].pc = "done" /\ jsonCalls[c].outcome = ParseError) =>
           calls[c].op # NoOp

----------------------------------------------------------------------------
(* OllamaService.streamGenerate, checked under SpecStream *)

\* C37: a streamGenerate call settles in the end: its promise is resolved
\* or rejected once the stream has delivered its events.
C37_StreamEventuallySettles ==
    (stream.pc # "idle") ~> (stream.promise \in {"resolved", "rejected"})

----------------------------------------------------------------------------
(* GET /sessions, checked under SpecListing *)

\* C34: one bad entry never aborts or fails the listing: a GET /sessions
\* request is never left without its response by an entry that does not
\* deserialize, and the response holds the entries that deserialized
\* (those that were expired or corrupt when read are left out).
C34_BadEntryNeverFailsListing ==
    /\ listing.pc # "failed"
    /\ listing.pc = "done" =>
          listing.body = {k \in listing.keys : listing.got[k] \notin {"null", "threw"}}

----------------------------------------------------------------------------
(* MCPProtocol, checked under SpecProtocol *)

\* C23: validate returns true for every envelope createRequest and
\* createNotification built with a non-empty method and for every envelope
\* createResponse and createError built with a non-empty request id.
C23_ValidateAcceptsCreatedEnvelopes ==
    (/\ checked.called
     /\ \/ checked.by \in {"createRequest", "createNotification"} /\ checked.msg.method # ""
        \/ checked.by \in {"createResponse", "createError"} /\ checked.msg.id # 0)
       => checked.verdict

\* C24: validate returns false for null, for a value that is not an object,
\* for an object without id, without type or without method, and for an
\* object whose type is none of request, response and notification.
C24_ValidateRejectsMalformed ==
    (/\ checked.called
     /\ \/ checked.msg.shape # "object"
        \/ checked.msg.id = 0
        \/ checked.msg.type = ""
        \/ checked.msg.method = ""
        \/ checked.msg.type \notin {"request", "response", "notification"})
       => ~checked.verdict

C24_Witness ==
    /\ checked.called
    /\ checked.msg = Candidate("object", 1, "bogus", "research.start")
    /\ ~checked.verdict

\* C25: the envelopes of two createRequest calls never have the same id.
C25_RequestIdsDiffer ==
    \A i, j \in 1..Len(made) :
       (i # j /\ made[i].by = "createRequest" /\ made[j].by = "createRequest") =>
           made[i].msg.id # made[j].msg.id

----------------------------------------------------------------------------
(* A further property of WorkflowManager, checked under SpecWorkflow *)

\* the stage that the catch block of an operation records its failure on
OwningStage(kind) ==
    IF kind = "startDevelopment" THEN "development"
    ELSE IF kind = "runTests" THEN "testing"
    ELSE "documentation"

\* Operation t throws in this step out of the try block of startDevelopment,
\* runTests or generateDocuments.
FailsInStage(t) ==
    /\ tasks[t].kind \in {"startDevelopment", "runTests", "generateDocuments"}
    /\ tasks[t].pc \notin {"idle", "done"}
    /\ tasks'[t].pc = "done"
    /\ tasks'[t].outcome = "err"

\* C26: a step in which development, testing or documentation generation
\* fails leaves the owning stage of the workflow operated on failed and its
\* error recorded, and leaves every other stage of that workflow and every
\* other workflow, in memory and in redis, as they were.
C26_FailureTouchesOwningStageOnly ==
    [][\A t \in TaskIds :
          FailsInStage(t) =>
             LET o == tasks[t].ref
                 st == OwningStage(tasks[t].kind)
             IN  /\ objs'[o].stages[st].status = "failed"
                 /\ ErrorsOf(objs'[o], st) # <<>>
                 /\ \A other \in Stages \ {st} :
                       objs'[o].stages[other] = objs[o].stages[other]
                 /\ \A p \in ObjIds \ {o} : objs'[p] = objs[p]
                 /\ \A k \in WfKeys \ {objs[o].sessionId} : savedWf'[k] = savedWf[k]]_vars

\* C39: a crawl-progress event raised by the executeResearch of one session
\* (no two workflows sharing a session id) changes the workflow of no other
\* session.
C39_CrawlProgressStaysInItsSession ==
    [][\A t \in TaskIds :
          (/\ C13_SessionIdNeverReused
           /\ tasks[t].pc = "crawl"
           /\ tasks'[t].pc = "crawl"
           /\ tasks'[t].aux < tasks[t].aux) =>
              \A o \in ObjIds \ {tasks[t].ref} : objs'[o] = objs[o]]_vars

\* C33: a failure while ranking the papers does not fail the research
\* phase: the step in which ranking fails leaves the research stage of the
\* session's workflow not failed and executeResearch still running.
C33_RankingFailureNotFatal ==
    [][\A t \in TaskIds :
          (/\ tasks[t].kind = "executeResearch"
           /\ tasks[t].pc = "crawl"
           /\ tasks[t].aux = 0
           /\ failures' = failures + 1
           /\ tasks'[t] # tasks[t]) =>
             /\ tasks'[t].pc # "done"
             /\ objs'[tasks[t].ref].stages["research"].status # "failed"]_vars

\* C38: runTestsWithRetry makes at most 3 test runs.  A run with no failed
\* test ends it at once (development completed, currentStage testing); a run
\* that reports failures or whose request errors is followed by another run
\* while fewer than 3 were made and changes no workflow; the third such run
\* makes startDevelopment throw with the development stage of the workflow
\* registered for the session failed and every currentStage where it was.
C38_TestsRunAtMostThreeTimes ==
    [][\A t \in TaskIds :
          (/\ tasks[t].kind = "startDevelopment"
           /\ tasks[t].pc = "dev_tests"
           /\ tasks'[t] # tasks[t]) =>
             LET runs == tasks[t].aux + 1
                 o == tasks[t].ref
                 s == Lookup(tasks[t].id)
             IN  /\ runs <= 3
                 /\ \/ /\ tasks'[t].pc = "dev_save"
                       /\ objs'[s].stages["development"].status = "completed"
                       /\ objs'[o].currentStage = "testing"
                    \/ /\ runs < 3
                       /\ tasks'[t].pc = "dev_tests"
                       /\ tasks'[t].aux = runs
                       /\ objs' = objs
                    \/ /\ runs = 3
                       /\ tasks'[t].pc = "done"
                       /\ tasks'[t].outcome = "err"
                       /\ objs'[s].stages["development"].status = "failed"
                       /\ \A x \in ObjIds : objs'[x].currentStage = objs[x].currentStage]_vars

C38_Witness ==
    \E t \in TaskIds :
        /\ tasks[t].kind = "startDevelopment"
        /\ tasks[t].pc = "done"
        /\ tasks[t].outcome = "err"
        /\ tasks[t].error = "Tests failed after retries"
        /\ objs[tasks[t].ref].stages["development"].status = "failed"
        /\ objs[tasks[t].ref].currentStage = "development"

\* C32: currentStage becomes completed only if a document was produced for
\* every requested format: a generateDocuments call that went on to lines
\* 487-496 has pushed a document of the format it was asked for (the
\* documents of generators 1, 2, 3 have format pdf, latex, pptx), or all
\* three when no format was given.
C32_CompletedOnlyWithRequestedDocuments ==
    \A t \in TaskIds :
        (/\ tasks[t].kind = "generateDocuments"
         /\ tasks[t].pc = "doc_save")
        => IF tasks[t].fmt = ""
           THEN tasks[t].docs = {1, 2, 3}
           ELSE \E g \in tasks[t].docs : tasks[t].fmt = <<"pdf", "latex", "pptx">>[g]

----------------------------------------------------------------------------
(* OllamaService.batchGenerate, checked under SpecBatch *)

\* C27: when batchGenerate returns, it returns as many results as it was
\* given requests, and result i is what the generate call of request i
\* returned: the answer of a generation for the fingerprint of request i.
C27_BatchResultsFollowRequestOrder ==
    (batch.pc = "done" /\ batch.outcome = "ok") =>
        /\ Len(batch.results) = Len(batch.requests)
        /\ \A i \in 1..Len(batch.requests) :
              /\ batch.results[i] = calls[i].result
              /\ batch.results[i].kind = "ok"
              /\ ops[OpOf(batch.results[i].payload)].fp = batch.requests[i]

C27_Witness ==
    /\ batch.pc = "done"
    /\ batch.outcome = "ok"
    /\ Len(batch.requests) = MaxBatch
    /\ batch.results[1].payload # batch.results[2].payload
    /\ \E o \in BatchCallIds : ops[o].fails > 0

\* the slice that request k belongs to
GroupOf(k) == (k - 1) \div BatchSize

\* the generate calls of the batch that have been made and have not settled
Outstanding == {c \in BatchCallIds : calls[c].pc \notin {"idle", "done"}}

\* C28: at most BatchSize generate calls of a batchGenerate call are
\* outstanding, and a request of a later group is issued only when every
\* request of the groups before it has returned successfully.
C28_GroupsIssuedOneAfterTheOther ==
    /\ Cardinality(Outstanding) <= BatchSize
    /\ \A c, d \in BatchCallIds :
          (GroupOf(c) < GroupOf(d) /\ calls[d].pc # "idle") =>
              calls[c].pc = "done" /\ calls[c].result.kind = "ok"

C28_Witness ==
    /\ calls[MaxBatch].pc \notin {"idle", "done"}
    /\ GroupOf(MaxBatch) = 1
    /\ \A c \in 1..BatchSize : calls[c].pc = "done"

====
